---- MODULE Spec2Model ----
(***************************************************************************)
(* A model of the two data-consistency components of the desktop client:   *)
(*                                                                         *)
(*   GitStore          app/src/lib/dispatcher/git-store.ts                 *)
(*   RepositoriesStore src/shared-process/repositories-store.ts            *)
(*                                                                         *)
(* Both are driven from a single-threaded event loop.  An async method     *)
(* runs synchronously up to its first await, and every continuation after  *)
(* an await is one atomic step; calls interleave only at the awaits.  Each *)
(* action below is one such synchronous stretch of one call.               *)
(***************************************************************************)
EXTENDS Integers, Sequences, FiniteSets, TLC

(***************************************************************************)
(* Bounds of the model.                                                    *)
(***************************************************************************)
\* Commits that exist in the Git repository; SHAs are 1..NumCommits.
NumCommits == 3
\* Commits per batch.  The program's CommitBatchSize is 100; the model
\* scales it down so that a batch can be shorter than the ancestry.
MaxBatch == 2
\* Calls of GitStore methods in one behaviour.
MaxCalls == 3
\* Calls of RepositoriesStore methods in one behaviour.
MaxStoreCalls == 3
\* Calls of GitStore methods in one behaviour of the specification with
\* every method.
MaxOpCalls == 2
\* Calls of AppWindow.load() in one behaviour.
MaxLoads == 2
\* The last reading of the clock; the first is 1.
MaxTime == 3
\* The largest time a renderer reports with 'renderer-ready'.
MaxReadyTime == 1
\* Calls of checkIfPathIsRepository in one behaviour.
MaxChecks == 3

VARIABLES
  \* ---- the Git repository the GitStore reads (the collaborator) ----
  parent,           \* parent[c]: the parent of commit c, 0 for a root
  \* ---- GitStore fields ----
  history,          \* _history: the ordered SHAs
  commits,          \* commits: the SHAs that are keys of the Map
  requestsInFight,  \* requestsInFight: the request keys in flight
  \* ---- the calls made on the GitStore and what subscribers saw ----
  calls,            \* one record per call: its method, position, results
  events,           \* the emitter's deliveries, in order
  \* ---- GitStore fields about branches, local commits and undo ----
  currentBranch,    \* _currentBranch: <<>> or <<branch>>
  defaultBranch,    \* _defaultBranch: <<>> or <<branch>>
  allBranches,      \* _allBranches
  recentBranches,   \* _recentBranches
  localCommitSHAs,  \* _localCommitSHAs
  contextualCommitMessage,  \* _contextualCommitMessage: <<>> or <<message>>
  \* ---- the database behind the RepositoriesStore ----
  repositories,         \* db.repositories: the row with id i is at index i
  gitHubRepositories,   \* db.gitHubRepositories
  owners,               \* db.owners
  \* ---- the calls made on the RepositoriesStore ----
  storeCalls,       \* one record per call
  transactions,     \* calls whose transaction is created and not yet run
  \* ---- AppWindow fields, its listeners and the page it loads ----
  loadTime,           \* _loadTime: <<>> or <<milliseconds>>
  rendererReadyTime,  \* _rendererReadyTime: <<>> or <<milliseconds>>
  listeners,          \* per load(): its `once` listeners and its startLoad
  didLoad,            \* the emitter's 'did-load' emissions, in order
  page,               \* what the web contents is doing
  now,                \* Date.now()
  \* ---- AddExistingRepository fields and its path checks ----
  formState,                \* this.state
  checkGitRepositoryToken,  \* checkGitRepositoryToken
  checks                    \* one record per checkIfPathIsRepository call

gitVars == <<parent, history, commits, requestsInFight, calls, events>>

branchVars == <<currentBranch, defaultBranch, allBranches, recentBranches,
                localCommitSHAs, contextualCommitMessage>>

dbVars == <<repositories, gitHubRepositories, owners, storeCalls, transactions>>

windowVars == <<loadTime, rendererReadyTime, listeners, didLoad, page, now>>

formVars == <<formState, checkGitRepositoryToken, checks>>

uiVars == <<windowVars, formVars>>

storeVars == <<gitVars, branchVars, dbVars>>

vars == <<parent, history, commits, requestsInFight, calls, events,
          currentBranch, defaultBranch, allBranches, recentBranches,
          localCommitSHAs, contextualCommitMessage,
          repositories, gitHubRepositories, owners, storeCalls, transactions,
          loadTime, rendererReadyTime, listeners, didLoad, page, now,
          formState, checkGitRepositoryToken, checks>>

SHAs == 1..NumCommits

(***************************************************************************)
(* Constants of git-store.ts.                                              *)
(***************************************************************************)
CommitBatchSize == MaxBatch

LoadingHistoryRequestKey == <<"history">>

\* `history/${lastSHA}`
BatchRequestKey(lastSHA) == <<"history", lastSHA>>

(***************************************************************************)
(* Helpers on sequences (the Array methods the code uses).                 *)
(***************************************************************************)
\* findIndex: the first 1-based position of x in s, 0 when absent (JS -1).
FindIndex(s, x) ==
  IF \E i \in 1..Len(s) : s[i] = x
    THEN CHOOSE i \in 1..Len(s) : s[i] = x /\ \A j \in 1..(i-1) : s[j] # x
    ELSE 0

Range(s) == { s[i] : i \in 1..Len(s) }

(***************************************************************************)
(* LocalGitOperations.getCommits(repository, revision, limit): the first   *)
(* `limit` commits reachable from `start`, newest first.  start = 0 is a   *)
(* revision that does not resolve (the parent of a root commit).           *)
(***************************************************************************)
RECURSIVE getCommits(_, _)
getCommits(start, limit) ==
  IF start = 0 \/ limit = 0
    THEN <<>>
    ELSE <<start>> \o getCommits(parent[start], limit - 1)

(***************************************************************************)
(* The emitter.  Subscribers run synchronously inside emit, so each        *)
(* delivery records what a subscriber reading the store would see.         *)
(***************************************************************************)
Event(kind, c, newCommits, error, h, cs) ==
  [ kind |-> kind, call |-> c, commits |-> newCommits, error |-> error,
    seenHistory |-> h, seenCommits |-> cs ]

emitUpdate(c, h, cs) == Event("did-update", c, <<>>, 0, h, cs)

emitNewCommitsLoaded(c, newCommits, h, cs) ==
  Event("did-load-new-commits", c, newCommits, 0, h, cs)

emitError(c, error, h, cs) == Event("did-error", c, <<>>, error, h, cs)

(***************************************************************************)
(* performFailableOperation(fn): awaits fn(); a value is passed through,   *)
(* a thrown error is emitted on did-error and undefined is returned.       *)
(* outcome = [ok, val, err] is what fn() did; the result says how the      *)
(* wrapper's own promise settled (state), whether the value is defined     *)
(* (def), the value, and what was emitted.                                 *)
(***************************************************************************)
\* performFailableOperation without its catch: the error propagates.
performFailableOperation_Rethrows(c, outcome, h, cs) ==
  IF outcome.ok
    THEN [ state |-> "resolved", def |-> TRUE, val |-> outcome.val,
           emitted |-> <<>> ]
    ELSE [ state |-> "rejected", def |-> FALSE, val |-> <<>>,
           emitted |-> <<>> ]

performFailableOperation(c, outcome, h, cs) ==
  IF outcome.ok
    THEN [ state |-> "resolved", def |-> TRUE, val |-> outcome.val,
           emitted |-> <<>> ]
    ELSE [ state |-> "resolved", def |-> FALSE, val |-> <<>>,
           emitted |-> <<emitError(c, outcome.err, h, cs)>> ]

(***************************************************************************)
(* Calls.  calls[c] is the c-th call made on the store:                    *)
(*   op       the method                                                   *)
(*   pc       "git": the Git command it invoked has not settled;           *)
(*            "resume": the awaited promise settled, the method's          *)
(*            continuation has not run yet; "done": the method returned    *)
(*   from     the revision it asked for: 0 for HEAD, s for `${s}^`         *)
(*   key      the request key it added, <<>> when it added none            *)
(*   pfo      how performFailableOperation's promise settled               *)
(*   def/val  the value the await produced (def = FALSE: undefined)        *)
(*   promise  how the call's own promise settled                           *)
(*   nGit     the Git commands the call invoked                            *)
(***************************************************************************)
Call(op, pc, from, key, promise, nGit) ==
  [ op |-> op, pc |-> pc, from |-> from, key |-> key, pfo |-> "pending",
    def |-> FALSE, val |-> <<>>, promise |-> promise, nGit |-> nGit ]

\* A call that returned before its first await.
Returned(op) == Call(op, "done", 0, <<>>, "resolved", 0)

\* A call suspended on the Git command it invoked.
Awaiting(op, from, key) == Call(op, "git", from, key, "pending", 1)

Settle(c, state) ==
  [calls EXCEPT ![c].pc = "done", ![c].promise = state]

(***************************************************************************)
(* loadHistory, up to its await (git-store.ts 78-83).                      *)
(***************************************************************************)
\* loadHistory without its guard on the request key.
LoadHistoryGuard_Missing == FALSE

LoadHistoryGuard == LoadingHistoryRequestKey \in requestsInFight

LoadHistoryCall ==
  /\ Len(calls) < MaxCalls
  /\ IF LoadHistoryGuard
       THEN /\ calls' = Append(calls, Returned("loadHistory"))
            /\ UNCHANGED requestsInFight
       ELSE /\ requestsInFight' = requestsInFight \cup {LoadingHistoryRequestKey}
            /\ calls' = Append(calls,
                 Awaiting("loadHistory", 0, LoadingHistoryRequestKey))
  /\ UNCHANGED <<parent, history, commits, events>>

(***************************************************************************)
(* loadNextHistoryBatch, up to its await (git-store.ts 113-124).           *)
(***************************************************************************)
\* The guard without the check of the batch's own key (line 120).
LoadNextGuard_NoBatchKey ==
  \/ LoadingHistoryRequestKey \in requestsInFight
  \/ Len(history) = 0

LoadNextGuard ==
  \/ LoadingHistoryRequestKey \in requestsInFight
  \/ Len(history) = 0
  \/ BatchRequestKey(history[Len(history)]) \in requestsInFight

LoadNextHistoryBatchCall ==
  /\ Len(calls) < MaxCalls
  /\ IF LoadNextGuard
       THEN /\ calls' = Append(calls, Returned("loadNextHistoryBatch"))
            /\ UNCHANGED requestsInFight
       ELSE LET lastSHA == history[Len(history)]
                requestKey == BatchRequestKey(lastSHA)
            IN /\ requestsInFight' = requestsInFight \cup {requestKey}
               /\ calls' = Append(calls,
                    Awaiting("loadNextHistoryBatch", lastSHA, requestKey))
  /\ UNCHANGED <<parent, history, commits, events>>

(***************************************************************************)
(* The Git command of call c settles and performFailableOperation's        *)
(* continuation runs (git-store.ts 313-321).  `git log` succeeds with the  *)
(* batch when the revision resolves, and may fail at any time.  Commits,   *)
(* resets and checkouts move HEAD between fetches, so a log of HEAD may    *)
(* start at any commit; the log of `${s}^` starts at the parent of s.      *)
(***************************************************************************)
GitLogOutcomes(c) ==
  LET starts == IF calls[c].from = 0 THEN SHAs
                ELSE {parent[calls[c].from]} \ {0}
  IN { [ok |-> FALSE, val |-> <<>>, err |-> c] }
     \cup { [ok |-> TRUE, val |-> getCommits(start, CommitBatchSize),
             err |-> 0] : start \in starts }

GetCommitsSettles(c) ==
  /\ calls[c].pc = "git"
  /\ calls[c].op \in {"loadHistory", "loadNextHistoryBatch"}
  /\ \E outcome \in GitLogOutcomes(c) :
       LET r == performFailableOperation(c, outcome, history, commits)
       IN /\ calls' = [calls EXCEPT ![c].pc = "resume", ![c].pfo = r.state,
                                    ![c].def = r.def, ![c].val = r.val]
          /\ events' = events \o r.emitted
  /\ UNCHANGED <<parent, history, commits, requestsInFight>>

(***************************************************************************)
(* loadHistory after its await (git-store.ts 84-110).                      *)
(***************************************************************************)
\* Splice slicing one commit too many: commits.slice(0, index + 1).
Splice_OffByOne(existingHistory, batch) ==
  IF Len(existingHistory) > 0
    THEN LET mostRecent == existingHistory[1]
             index == FindIndex(batch, mostRecent)
         IN IF index > 0
              THEN [ commits |-> SubSeq(batch, 1, index),
                     existingHistory |-> existingHistory ]
              ELSE [ commits |-> batch, existingHistory |-> <<>> ]
    ELSE [ commits |-> batch, existingHistory |-> existingHistory ]

\* Splice keeping the old history when the old HEAD is not in the batch.
Splice_KeepsDiverged(existingHistory, batch) ==
  IF Len(existingHistory) > 0
    THEN LET mostRecent == existingHistory[1]
             index == FindIndex(batch, mostRecent)
         IN IF index > 0
              THEN [ commits |-> SubSeq(batch, 1, index - 1),
                     existingHistory |-> existingHistory ]
              ELSE [ commits |-> batch, existingHistory |-> existingHistory ]
    ELSE [ commits |-> batch, existingHistory |-> existingHistory ]

\* Lines 86-101: what is kept of the fetched batch and of the old history.
Splice(existingHistory, batch) ==
  IF Len(existingHistory) > 0
    THEN LET mostRecent == existingHistory[1]
             index == FindIndex(batch, mostRecent)
         IN IF index > 0
              THEN [ commits |-> SubSeq(batch, 1, index - 1),
                     existingHistory |-> existingHistory ]
              ELSE [ commits |-> batch, existingHistory |-> <<>> ]
    ELSE [ commits |-> batch, existingHistory |-> existingHistory ]

\* storeCommits on a map that is cleared first.
storeCommits_Replaces(map, cs) == Range(cs)

\* storeCommits that leaves the first commit of the list out.
storeCommits_SkipsFirst(map, cs) ==
  map \cup (IF cs = <<>> THEN {} ELSE Range(Tail(cs)))

\* storeCommits (lines 276-280).
storeCommits(map, cs) == map \cup Range(cs)

\* The two notifications in the other order.
NotifyLoaded_UpdateFirst(c, newCommits, h, cs) ==
  << emitUpdate(c, h, cs), emitNewCommitsLoaded(c, newCommits, h, cs) >>

\* Lines 108-109 and 132-133: the two notifications of a successful load.
NotifyLoaded(c, newCommits, h, cs) ==
  << emitNewCommitsLoaded(c, newCommits, h, cs), emitUpdate(c, h, cs) >>

\* What loadHistory's continuation does to the store, given what the await
\* produced: the new history, commits and request keys, and what it emits.
LoadHistoryContinue(c) ==
  IF ~calls[c].def
    THEN [ history |-> history, commits |-> commits,
           requestsInFight |-> requestsInFight, emitted |-> <<>> ]
    ELSE LET s == Splice(history, calls[c].val)
             h == s.commits \o s.existingHistory
             cs == storeCommits(commits, s.commits)
         IN [ history |-> h, commits |-> cs,
              requestsInFight |-> requestsInFight \ {LoadingHistoryRequestKey},
              emitted |-> NotifyLoaded(c, s.commits, h, cs) ]

LoadHistoryResume(c) ==
  /\ calls[c].pc = "resume"
  /\ calls[c].op = "loadHistory"
  /\ IF calls[c].pfo = "rejected"
       THEN /\ calls' = Settle(c, "rejected")
            /\ UNCHANGED <<history, commits, requestsInFight, events>>
       ELSE LET r == LoadHistoryContinue(c)
            IN /\ history' = r.history
               /\ commits' = r.commits
               /\ requestsInFight' = r.requestsInFight
               /\ events' = events \o r.emitted
               /\ calls' = Settle(c, "resolved")
  /\ UNCHANGED parent

(***************************************************************************)
(* loadNextHistoryBatch after its await (git-store.ts 125-134).            *)
(***************************************************************************)
\* loadNextHistoryBatch without `if (!commits) { return }`: a failed fetch
\* is handled like an empty batch.
LoadNextContinue_NoCheck(c) ==
  LET h == history \o calls[c].val
      cs == storeCommits(commits, calls[c].val)
  IN [ history |-> h, commits |-> cs,
       requestsInFight |-> requestsInFight \ {calls[c].key},
       emitted |-> NotifyLoaded(c, calls[c].val, h, cs) ]

\* loadNextHistoryBatch that puts the batch in front of the history.
LoadNextContinue_Prepends(c) ==
  IF ~calls[c].def
    THEN [ history |-> history, commits |-> commits,
           requestsInFight |-> requestsInFight, emitted |-> <<>> ]
    ELSE LET h == calls[c].val \o history
             cs == storeCommits(commits, calls[c].val)
         IN [ history |-> h, commits |-> cs,
              requestsInFight |-> requestsInFight \ {calls[c].key},
              emitted |-> NotifyLoaded(c, calls[c].val, h, cs) ]

LoadNextContinue(c) ==
  IF ~calls[c].def
    THEN [ history |-> history, commits |-> commits,
           requestsInFight |-> requestsInFight, emitted |-> <<>> ]
    ELSE LET h == history \o calls[c].val
             cs == storeCommits(commits, calls[c].val)
         IN [ history |-> h, commits |-> cs,
              requestsInFight |-> requestsInFight \ {calls[c].key},
              emitted |-> NotifyLoaded(c, calls[c].val, h, cs) ]

LoadNextHistoryBatchResume(c) ==
  /\ calls[c].pc = "resume"
  /\ calls[c].op = "loadNextHistoryBatch"
  /\ IF calls[c].pfo = "rejected"
       THEN /\ calls' = Settle(c, "rejected")
            /\ UNCHANGED <<history, commits, requestsInFight, events>>
       ELSE LET r == LoadNextContinue(c)
            IN /\ history' = r.history
               /\ commits' = r.commits
               /\ requestsInFight' = r.requestsInFight
               /\ events' = events \o r.emitted
               /\ calls' = Settle(c, "resolved")
  /\ UNCHANGED parent

(***************************************************************************)
(* fetch(user) (git-store.ts 348-353): neither await goes through          *)
(* performFailableOperation.  getDefaultRemote yields a remote name or     *)
(* nothing, or fails; LocalGitOperations.fetch succeeds or fails.          *)
(***************************************************************************)
FetchCall ==
  /\ Len(calls) < MaxCalls
  /\ calls' = Append(calls, Call("fetch", "remote", 0, <<>>, "pending", 1))
  /\ UNCHANGED <<parent, history, commits, requestsInFight, events>>

\* Line 349-352: the await of getDefaultRemote settles.
FetchGetDefaultRemoteSettles(c) ==
  /\ calls[c].op = "fetch"
  /\ calls[c].pc = "remote"
  /\ \E outcome \in {"throws", "none", "origin"} :
       calls' = CASE outcome = "throws" -> Settle(c, "rejected")
                  [] outcome = "none" -> Settle(c, "resolved")
                  [] OTHER -> [calls EXCEPT ![c].pc = "git", ![c].nGit = 2]
  /\ UNCHANGED <<parent, history, commits, requestsInFight, events>>

\* Line 352: the promise of LocalGitOperations.fetch is the call's result.
FetchSettles(c) ==
  /\ calls[c].op = "fetch"
  /\ calls[c].pc = "git"
  /\ \E ok \in BOOLEAN :
       calls' = Settle(c, IF ok THEN "resolved" ELSE "rejected")
  /\ UNCHANGED <<parent, history, commits, requestsInFight, events>>

(***************************************************************************)
(* The GitStore after construction, over every commit graph without merge  *)
(* commits: each commit has one older commit as its parent, or none.       *)
(***************************************************************************)
GitInit ==
  /\ parent \in { f \in [SHAs -> 0..(NumCommits - 1)] : \A c \in SHAs : f[c] < c }
  /\ history = <<>>
  /\ commits = {}
  /\ requestsInFight = {}
  /\ calls = <<>>
  /\ events = <<>>

GitNext ==
  \/ LoadHistoryCall
  \/ LoadNextHistoryBatchCall
  \/ FetchCall
  \/ \E c \in DOMAIN calls : GetCommitsSettles(c)
  \/ \E c \in DOMAIN calls : LoadHistoryResume(c)
  \/ \E c \in DOMAIN calls : LoadNextHistoryBatchResume(c)
  \/ \E c \in DOMAIN calls : FetchGetDefaultRemoteSettles(c)
  \/ \E c \in DOMAIN calls : FetchSettles(c)

(***************************************************************************)
(* RepositoriesStore (src/shared-process/repositories-store.ts).           *)
(*                                                                         *)
(* The three Dexie tables have auto-incremented primary keys and nothing   *)
(* is ever deleted, so a table is the sequence of its rows and the row     *)
(* with id i is the i-th.  A nullable value is <<>> (null or undefined)    *)
(* or <<v>>.                                                               *)
(***************************************************************************)
Null == <<>>

Some(v) == <<v>>

\* The values the callers pass in.
Paths == {"/some/cool/path", "/some/other/path"}

DotComEndpoint == "https://api.github.com"

EnterpriseEndpoint == "https://ghe.io/api/v3"

Owner(login, endpoint) == [login |-> login, endpoint |-> endpoint]

MyUser == Owner("my-user", DotComEndpoint)

\* The same login in another letter case.
MyUserUpperCase == Owner("My-User", DotComEndpoint)

\* The same login on another installation.
MyUserEnterprise == Owner("my-user", EnterpriseEndpoint)

Hubot == Owner("hubot", DotComEndpoint)

Owners == {MyUser, MyUserUpperCase, MyUserEnterprise, Hubot}

GitHubRepository(name, owner, private, fork, htmlURL) ==
  [ name |-> name, owner |-> owner, private |-> private, fork |-> fork,
    htmlURL |-> htmlURL ]

\* The payloads: one for each owner, the first two different in every field.
GitHubRepositories ==
  { GitHubRepository("my-repo", MyUser, TRUE, FALSE, "https://github.com/my-user/my-repo"),
    GitHubRepository("a-fork", MyUserUpperCase, FALSE, TRUE, "https://github.com/My-User/a-fork"),
    GitHubRepository("my-repo", MyUserEnterprise, TRUE, FALSE, "https://ghe.io/my-user/my-repo"),
    GitHubRepository("a-fork", Hubot, FALSE, FALSE, "https://github.com/hubot/a-fork") }

\* Repository(path, gitHubRepository, id)
Repository(path, gitHubRepository, id) ==
  [ path |-> path, gitHubRepository |-> gitHubRepository, id |-> id ]

\* String.prototype.toLowerCase on the logins in use.
ToLowerCase(login) ==
  CASE login = "My-User" -> "my-user"
    [] OTHER -> login

\* The lookup with `equals` in place of `equalsIgnoreCase`.
EqualsIgnoreCase_Exact(a, b) == a = b

\* Dexie's WhereClause.equalsIgnoreCase
EqualsIgnoreCase(a, b) == ToLowerCase(a) = ToLowerCase(b)

\* table.add(row) and table.put(row) without a key: the generated key.
NextKey(table) == Len(table) + 1

(***************************************************************************)
(* getRepositories (lines 24-46): one read transaction over the tables.    *)
(***************************************************************************)
Inflate(repo, ghTable, ownerTable) ==
  IF repo.gitHubRepositoryID # 0
    THEN LET gitHubRepository == ghTable[repo.gitHubRepositoryID]
             owner == ownerTable[gitHubRepository.ownerID]
         IN Repository(repo.path,
              Some(GitHubRepository(gitHubRepository.name,
                                    Owner(owner.login, owner.endpoint),
                                    gitHubRepository.private,
                                    gitHubRepository.fork,
                                    gitHubRepository.htmlURL)),
              Some(repo.id))
    ELSE Repository(repo.path, Null, Some(repo.id))

getRepositories ==
  [ i \in 1..Len(repositories) |->
      Inflate(repositories[i], gitHubRepositories, owners) ]

(***************************************************************************)
(* The transaction of updateGitHubRepository (lines 82-123) on the tables  *)
(* db = [repositories, gitHubRepositories, owners].                        *)
(***************************************************************************)
\* Lines 97-101: where('login').equalsIgnoreCase(login).limit(1).first(),
\* the id of the first matching owner, 0 when there is none.
FindOwner(ownerTable, login) ==
  LET matches == { i \in 1..Len(ownerTable) :
                     EqualsIgnoreCase(ownerTable[i].login, login) }
  IN IF matches = {} THEN 0
     ELSE CHOOSE i \in matches : \A j \in matches : i <= j

\* The owner resolved by the payload's login for a linked repository too.
ResolveOwner_AlwaysByLogin(db, localRepo, newGitHubRepo) ==
  LET owner == newGitHubRepo.owner
      existingOwner == FindOwner(db.owners, owner.login)
  IN IF existingOwner # 0
       THEN [ ownerID |-> existingOwner, owners |-> db.owners ]
       ELSE [ ownerID |-> NextKey(db.owners),
              owners |-> Append(db.owners,
                [ id |-> NextKey(db.owners), login |-> owner.login,
                  endpoint |-> owner.endpoint ]) ]

\* The owner lookup that forgets owners.add when no owner matches.
ResolveOwner_NoAdd(db, localRepo, newGitHubRepo) ==
  IF localRepo.gitHubRepositoryID # 0
    THEN [ ownerID |-> db.gitHubRepositories[localRepo.gitHubRepositoryID].ownerID,
           owners |-> db.owners ]
    ELSE LET existingOwner == FindOwner(db.owners, newGitHubRepo.owner.login)
         IN [ ownerID |-> IF existingOwner # 0 THEN existingOwner
                          ELSE NextKey(db.owners),
              owners |-> db.owners ]

\* Lines 85-107: the owner id to write, and the owners table after it.
ResolveOwner(db, localRepo, newGitHubRepo) ==
  IF localRepo.gitHubRepositoryID # 0
    THEN LET existingGitHubRepo == db.gitHubRepositories[localRepo.gitHubRepositoryID]
             owner == db.owners[existingGitHubRepo.ownerID]
         IN [ ownerID |-> owner.id, owners |-> db.owners ]
    ELSE LET owner == newGitHubRepo.owner
             existingOwner == FindOwner(db.owners, owner.login)
         IN IF existingOwner # 0
              THEN [ ownerID |-> existingOwner, owners |-> db.owners ]
              ELSE [ ownerID |-> NextKey(db.owners),
                     owners |-> Append(db.owners,
                       [ id |-> NextKey(db.owners), login |-> owner.login,
                         endpoint |-> owner.endpoint ]) ]

\* The put that looks for a row with the payload's name and owner first
\* and writes that row when there is one.
PutGitHubRepository_ReusesSameName(ghTable, localRepo, newGitHubRepo, ownerID) ==
  LET same == { g \in 1..Len(ghTable) :
                  ghTable[g].name = newGitHubRepo.name
                  /\ ghTable[g].ownerID = ownerID }
      gitHubRepositoryID ==
        IF localRepo.gitHubRepositoryID # 0
          THEN ghTable[localRepo.gitHubRepositoryID].id
          ELSE IF same # {} THEN CHOOSE g \in same : TRUE
               ELSE NextKey(ghTable)
      info == [ id |-> gitHubRepositoryID,
                private |-> newGitHubRepo.private,
                fork |-> newGitHubRepo.fork,
                htmlURL |-> newGitHubRepo.htmlURL,
                name |-> newGitHubRepo.name,
                ownerID |-> ownerID ]
  IN [ gitHubRepositoryID |-> gitHubRepositoryID,
       gitHubRepositories |->
         IF gitHubRepositoryID <= Len(ghTable)
           THEN [ghTable EXCEPT ![gitHubRepositoryID] = info]
           ELSE Append(ghTable, info) ]

\* The put that leaves the row of a linked repository as it was.
PutGitHubRepository_KeepsExisting(ghTable, localRepo, newGitHubRepo, ownerID) ==
  IF localRepo.gitHubRepositoryID # 0
    THEN [ gitHubRepositoryID |-> localRepo.gitHubRepositoryID,
           gitHubRepositories |-> ghTable ]
    ELSE [ gitHubRepositoryID |-> NextKey(ghTable),
           gitHubRepositories |-> Append(ghTable,
             [ id |-> NextKey(ghTable),
               private |-> newGitHubRepo.private,
               fork |-> newGitHubRepo.fork,
               htmlURL |-> newGitHubRepo.htmlURL,
               name |-> newGitHubRepo.name,
               ownerID |-> ownerID ]) ]

\* The put without `info.id = existingGitHubRepo.id`: always a new row.
PutGitHubRepository_NoID(ghTable, localRepo, newGitHubRepo, ownerID) ==
  LET gitHubRepositoryID == NextKey(ghTable)
      info == [ id |-> gitHubRepositoryID,
                private |-> newGitHubRepo.private,
                fork |-> newGitHubRepo.fork,
                htmlURL |-> newGitHubRepo.htmlURL,
                name |-> newGitHubRepo.name,
                ownerID |-> ownerID ]
  IN [ gitHubRepositoryID |-> gitHubRepositoryID,
       gitHubRepositories |-> Append(ghTable, info) ]

\* Lines 109-121: gitHubRepositories.put(info); the key it returns and the
\* table after it.
PutGitHubRepository(ghTable, localRepo, newGitHubRepo, ownerID) ==
  LET gitHubRepositoryID ==
        IF localRepo.gitHubRepositoryID # 0
          THEN ghTable[localRepo.gitHubRepositoryID].id
          ELSE NextKey(ghTable)
      info == [ id |-> gitHubRepositoryID,
                private |-> newGitHubRepo.private,
                fork |-> newGitHubRepo.fork,
                htmlURL |-> newGitHubRepo.htmlURL,
                name |-> newGitHubRepo.name,
                ownerID |-> ownerID ]
  IN [ gitHubRepositoryID |-> gitHubRepositoryID,
       gitHubRepositories |->
         IF gitHubRepositoryID <= Len(ghTable)
           THEN [ghTable EXCEPT ![gitHubRepositoryID] = info]
           ELSE Append(ghTable, info) ]

UpdateTransaction(db, repoID, newGitHubRepo) ==
  LET localRepo == db.repositories[repoID]
      o == ResolveOwner(db, localRepo, newGitHubRepo)
      p == PutGitHubRepository(db.gitHubRepositories, localRepo,
                               newGitHubRepo, o.ownerID)
  IN [ repositories |->
         [db.repositories EXCEPT
            ![localRepo.id].gitHubRepositoryID = p.gitHubRepositoryID],
       gitHubRepositories |-> p.gitHubRepositories,
       owners |-> o.owners ]

(***************************************************************************)
(* Calls on the store.  storeCalls[c]:                                     *)
(*   op       the method                                                   *)
(*   repo     the Repository passed in                                     *)
(*   pc       "insert" / "upsert": the transaction it waits for;           *)
(*            "done": the method returned                                  *)
(*   withID   addRepository's repoWithID once the insert has run           *)
(*   promise  how the call's promise settled                               *)
(* Dexie runs read-write transactions that share a table in the order      *)
(* they were created: `transactions` is that queue.                        *)
(***************************************************************************)
StoreCall(op, repo, pc, promise) ==
  [ op |-> op, repo |-> repo, pc |-> pc, withID |-> Null, promise |-> promise ]

DB == [ repositories |-> repositories,
        gitHubRepositories |-> gitHubRepositories, owners |-> owners ]

\* Lines 71-79: the contract checks of updateGitHubRepository.
UpdatePreconditionsHold(repository) ==
  /\ repository.id # Null
  /\ repository.gitHubRepository # Null

\* addRepository, up to `await transaction` (lines 49-59).
AddRepositoryCall(repo) ==
  /\ Len(storeCalls) < MaxStoreCalls
  /\ storeCalls' = Append(storeCalls,
       StoreCall("addRepository", repo, "insert", "pending"))
  /\ transactions' = Append(transactions, Len(storeCalls) + 1)
  /\ UNCHANGED <<repositories, gitHubRepositories, owners>>

\* The insert with the caller's id as the key of the row, when there is one.
AddRepositoryInsert_KeepsInputID(c) ==
  /\ transactions # <<>> /\ Head(transactions) = c
  /\ storeCalls[c].pc = "insert"
  /\ LET repo == storeCalls[c].repo
         id == IF repo.id # Null THEN repo.id[1] ELSE NextKey(repositories)
         row == [ id |-> id, path |-> repo.path, gitHubRepositoryID |-> 0 ]
         repoWithID == Repository(repo.path, repo.gitHubRepository, Some(id))
     IN /\ repositories' = IF id <= Len(repositories)
                              THEN [repositories EXCEPT ![id] = row]
                              ELSE Append(repositories,
                                          [row EXCEPT !.id = NextKey(repositories)])
        /\ IF repo.gitHubRepository # Null
             THEN /\ storeCalls' = [storeCalls EXCEPT ![c].pc = "upsert",
                                      ![c].withID = Some(repoWithID)]
                  /\ transactions' = Append(Tail(transactions), c)
             ELSE /\ storeCalls' = [storeCalls EXCEPT ![c].pc = "done",
                                      ![c].withID = Some(repoWithID),
                                      ![c].promise = "resolved"]
                  /\ transactions' = Tail(transactions)
  /\ UNCHANGED <<gitHubRepositories, owners>>

\* The insert that returns the row that already has the path, when there
\* is one, and adds none.
AddRepositoryInsert_Deduplicates(c) ==
  /\ transactions # <<>> /\ Head(transactions) = c
  /\ storeCalls[c].pc = "insert"
  /\ LET repo == storeCalls[c].repo
         same == { i \in 1..Len(repositories) : repositories[i].path = repo.path }
         id == IF same # {} THEN CHOOSE i \in same : TRUE
               ELSE NextKey(repositories)
         repoWithID == Repository(repo.path, repo.gitHubRepository, Some(id))
     IN /\ repositories' = IF same # {} THEN repositories
                           ELSE Append(repositories,
                                  [ id |-> id, path |-> repo.path,
                                    gitHubRepositoryID |-> 0 ])
        /\ IF repo.gitHubRepository # Null
             THEN /\ storeCalls' = [storeCalls EXCEPT ![c].pc = "upsert",
                                      ![c].withID = Some(repoWithID)]
                  /\ transactions' = Append(Tail(transactions), c)
             ELSE /\ storeCalls' = [storeCalls EXCEPT ![c].pc = "done",
                                      ![c].withID = Some(repoWithID),
                                      ![c].promise = "resolved"]
                  /\ transactions' = Tail(transactions)
  /\ UNCHANGED <<gitHubRepositories, owners>>

\* The insert runs (lines 52-57) and addRepository continues (lines 61-66):
\* it returns, or it calls updateGitHubRepository, which creates the second
\* transaction.
AddRepositoryInsert(c) ==
  /\ transactions # <<>> /\ Head(transactions) = c
  /\ storeCalls[c].pc = "insert"
  /\ LET repo == storeCalls[c].repo
         id == NextKey(repositories)
         repoWithID == Repository(repo.path, repo.gitHubRepository, Some(id))
     IN /\ repositories' = Append(repositories,
             [ id |-> id, path |-> repo.path, gitHubRepositoryID |-> 0 ])
        /\ IF repo.gitHubRepository # Null
             THEN /\ storeCalls' = [storeCalls EXCEPT ![c].pc = "upsert",
                                      ![c].withID = Some(repoWithID)]
                  /\ transactions' = Append(Tail(transactions), c)
             ELSE /\ storeCalls' = [storeCalls EXCEPT ![c].pc = "done",
                                      ![c].withID = Some(repoWithID),
                                      ![c].promise = "resolved"]
                  /\ transactions' = Tail(transactions)
  /\ UNCHANGED <<gitHubRepositories, owners>>

\* fatalError(message) of lib/fatal-error throws: the promise of the async
\* method that calls it is rejected.
fatalError == "rejected"

\* The contract checks with a bare `return` in place of fatalError.
UpdateGitHubRepositoryCall_ReturnsQuietly(repository) ==
  /\ Len(storeCalls) < MaxStoreCalls
  /\ IF UpdatePreconditionsHold(repository)
       THEN /\ storeCalls' = Append(storeCalls,
                 StoreCall("updateGitHubRepository", repository, "upsert", "pending"))
            /\ transactions' = Append(transactions, Len(storeCalls) + 1)
       ELSE /\ storeCalls' = Append(storeCalls,
                 StoreCall("updateGitHubRepository", repository, "done", "resolved"))
            /\ UNCHANGED transactions
  /\ UNCHANGED <<repositories, gitHubRepositories, owners>>

\* updateGitHubRepository, up to `await transaction` (lines 70-82).
UpdateGitHubRepositoryCall(repository) ==
  /\ Len(storeCalls) < MaxStoreCalls
  /\ IF UpdatePreconditionsHold(repository)
       THEN /\ storeCalls' = Append(storeCalls,
                 StoreCall("updateGitHubRepository", repository, "upsert", "pending"))
            /\ transactions' = Append(transactions, Len(storeCalls) + 1)
       ELSE /\ storeCalls' = Append(storeCalls,
                 StoreCall("updateGitHubRepository", repository, "done", fatalError))
            /\ UNCHANGED transactions
  /\ UNCHANGED <<repositories, gitHubRepositories, owners>>

\* The upsert transaction runs (lines 82-123) and its caller returns.
UpdateGitHubRepositoryTransaction(c) ==
  /\ transactions # <<>> /\ Head(transactions) = c
  /\ storeCalls[c].pc = "upsert"
  /\ LET repository == IF storeCalls[c].op = "addRepository"
                         THEN storeCalls[c].withID[1]
                         ELSE storeCalls[c].repo
         db == UpdateTransaction(DB, repository.id[1],
                                 repository.gitHubRepository[1])
     IN /\ repositories' = db.repositories
        /\ gitHubRepositories' = db.gitHubRepositories
        /\ owners' = db.owners
  /\ storeCalls' = [storeCalls EXCEPT ![c].pc = "done", ![c].promise = "resolved"]
  /\ transactions' = Tail(transactions)

\* The Repository values a caller can pass to updateGitHubRepository: one
\* the store handed out (by addRepository or getRepositories) with a new
\* payload attached, or one that breaks the contract.
UpdateArguments ==
  { Repository(r.path, Some(g), r.id) :
      r \in Range(getRepositories), g \in GitHubRepositories }
  \cup { Repository(r.path, Null, r.id) : r \in Range(getRepositories) }
  \cup { Repository("/some/cool/path",
                    Some(GitHubRepository("my-repo", MyUser, TRUE, FALSE,
                                          "https://github.com/my-user/my-repo")),
                    Null) }

\* The Repository values a caller can pass to addRepository: new ones, and
\* ones that already carry an id.
AddArguments ==
  { Repository(p, Some(g), Null) : p \in Paths, g \in GitHubRepositories }
  \cup { Repository(p, Null, Null) : p \in Paths }
  \cup { Repository("/some/cool/path", Null, Some(1)),
         Repository("/some/other/path",
                    Some(GitHubRepository("my-repo", MyUser, TRUE, FALSE,
                                          "https://github.com/my-user/my-repo")),
                    Some(1)) }

DBInit ==
  /\ repositories = <<>>
  /\ gitHubRepositories = <<>>
  /\ owners = <<>>
  /\ storeCalls = <<>>
  /\ transactions = <<>>

DBNext ==
  \/ \E repo \in AddArguments : AddRepositoryCall(repo)
  \/ \E repo \in UpdateArguments : UpdateGitHubRepositoryCall(repo)
  \/ \E c \in DOMAIN storeCalls : AddRepositoryInsert(c)
  \/ \E c \in DOMAIN storeCalls : UpdateGitHubRepositoryTransaction(c)

(***************************************************************************)
(* Storage failures and crashes.  A Dexie transaction whose body fails     *)
(* (a request error, a quota error, an exception) is aborted, and the      *)
(* process can exit while a call awaits a transaction.                     *)
(***************************************************************************)
MaxFaultCalls == 2

\* The tables after each of the writes of the upsert, in the order of the
\* code: owners.add (line 105, when it runs), gitHubRepositories.put
\* (line 121), repositories.update (line 122).
UpdateWrites(db, repoID, newGitHubRepo) ==
  LET localRepo == db.repositories[repoID]
      o == ResolveOwner(db, localRepo, newGitHubRepo)
      p == PutGitHubRepository(db.gitHubRepositories, localRepo,
                               newGitHubRepo, o.ownerID)
      afterOwner == [db EXCEPT !.owners = o.owners]
      afterPut == [afterOwner EXCEPT !.gitHubRepositories = p.gitHubRepositories]
  IN << afterOwner, afterPut, UpdateTransaction(db, repoID, newGitHubRepo) >>

\* The writes made one by one outside a transaction: a failure keeps the
\* writes made before it.
Transaction_NoRollback(before, writes, completed) ==
  IF completed = 0 THEN before ELSE writes[completed]

\* db.transaction('rw', repositories, gitHubRepositories, owners, body)
\* (line 82): the tables when the body failed after `completed` of its
\* writes (aborted: as before), or ran to its end (committed).
Transaction(before, writes, completed) ==
  IF completed = Len(writes) THEN writes[completed] ELSE before

\* The insert transaction of addRepository fails: `await transaction`
\* (line 59) throws.
AddRepositoryInsertFails(c) ==
  /\ transactions # <<>> /\ Head(transactions) = c
  /\ storeCalls[c].pc = "insert"
  /\ storeCalls' = [storeCalls EXCEPT ![c].pc = "done", ![c].promise = "rejected"]
  /\ transactions' = Tail(transactions)
  /\ UNCHANGED <<repositories, gitHubRepositories, owners>>

\* The upsert transaction ends, committed or aborted, and its caller
\* returns or throws (lines 82-125, and line 63 for addRepository).
UpdateGitHubRepositoryTransactionEnds(c) ==
  /\ transactions # <<>> /\ Head(transactions) = c
  /\ storeCalls[c].pc = "upsert"
  /\ LET repository == IF storeCalls[c].op = "addRepository"
                         THEN storeCalls[c].withID[1]
                         ELSE storeCalls[c].repo
         writes == UpdateWrites(DB, repository.id[1],
                                repository.gitHubRepository[1])
     IN \E completed \in 0..Len(writes) :
          LET db == Transaction(DB, writes, completed)
          IN /\ repositories' = db.repositories
             /\ gitHubRepositories' = db.gitHubRepositories
             /\ owners' = db.owners
             /\ storeCalls' = [storeCalls EXCEPT
                                 ![c].pc = "done",
                                 ![c].promise = IF completed = Len(writes)
                                                  THEN "resolved"
                                                  ELSE "rejected"]
  /\ transactions' = Tail(transactions)

\* The process exits while calls await their transactions (addRepository
\* at lines 59 and 63, updateGitHubRepository at line 82): the calls never
\* return, the transactions that did not run never will, and the database
\* stays as it is for the next run of the application.
Crash ==
  /\ transactions # <<>>
  /\ storeCalls' = [ c \in DOMAIN storeCalls |->
                       IF storeCalls[c].pc \in {"insert", "upsert"}
                         THEN [storeCalls[c] EXCEPT !.pc = "crashed"]
                         ELSE storeCalls[c] ]
  /\ transactions' = <<>>
  /\ UNCHANGED <<repositories, gitHubRepositories, owners>>

FaultNext ==
  \/ /\ Len(storeCalls) < MaxFaultCalls
     /\ \E repo \in AddArguments : AddRepositoryCall(repo)
  \/ /\ Len(storeCalls) < MaxFaultCalls
     /\ \E repo \in UpdateArguments : UpdateGitHubRepositoryCall(repo)
  \/ \E c \in DOMAIN storeCalls : AddRepositoryInsert(c)
  \/ \E c \in DOMAIN storeCalls : AddRepositoryInsertFails(c)
  \/ \E c \in DOMAIN storeCalls : UpdateGitHubRepositoryTransactionEnds(c)
  \/ Crash

(***************************************************************************)
(* The other methods of the GitStore: loadLocalCommits, undoCommit,        *)
(* loadBranches with loadRecentBranches, loadCurrentAndDefaultBranch.      *)
(* The settling of an awaited Git command and the continuation of the      *)
(* method that awaits it run in one turn of the event loop: one action.    *)
(***************************************************************************)
RecentBranchesLimit == 5

\* Commit(sha): the commit record of local-git-operations.
Commit(sha) ==
  [ sha |-> sha, summary |-> <<"summary", sha>>, body |-> <<"body", sha>>,
    parentSHAs |-> IF parent[sha] = 0 THEN <<>> ELSE <<parent[sha]>> ]

\* Branch(name, upstream, tip, type); the tip is given by its SHA.
Branch(name, upstream, tip, type) ==
  [ name |-> name, upstream |-> upstream, tip |-> tip, type |-> type ]

Master == Branch("master", Some("origin/master"), 2, "Local")

Topic == Branch("topic", Null, 3, "Local")

OriginMaster == Branch("origin/master", Null, 1, "Remote")

OriginTopic == Branch("origin/topic", Null, 3, "Remote")

\* What getBranches('refs/heads') and getBranches('refs/remotes') give when
\* they succeed: a remote branch that is the upstream of a local branch and
\* one that is not.  A failure stands for the empty list.
LocalBranchLists == { <<Topic, Master>> }

RemoteBranchLists == { <<OriginMaster, OriginTopic>> }

\* What a wrapped Git command can do: fail, or give one of `values`.
Outcomes(c, values) ==
  { [ok |-> FALSE, val |-> <<>>, err |-> c] }
  \cup { [ok |-> TRUE, val |-> v, err |-> 0] : v \in values }

\* The position of a call that awaits nothing any more.
Finish(c, r) ==
  [calls EXCEPT ![c].pc = "done", ![c].pfo = r.state, ![c].def = r.def,
                ![c].promise = r.state]

(***************************************************************************)
(* loadLocalCommits(branch) (git-store.ts 251-265).                        *)
(***************************************************************************)
\* `git log upstream..name` and `git log HEAD --not --remotes`, at most
\* CommitBatchSize commits: the commits of a branch that its upstream, or
\* any remote, does not have, newest first.
LocalCommitLists ==
  UNION { { SubSeq(getCommits(start, CommitBatchSize), 1, n) :
              n \in 0..Len(getCommits(start, CommitBatchSize)) } :
          start \in SHAs }

\* Lines 251-258, for a branch with an upstream as for one without: one
\* wrapped getCommits is awaited.
LoadLocalCommitsCall ==
  /\ Len(calls) < MaxOpCalls
  /\ calls' = Append(calls, Call("loadLocalCommits", "git", 0, <<>>, "pending", 1))
  /\ UNCHANGED <<parent, history, commits, requestsInFight, events>>
  /\ UNCHANGED branchVars

\* loadLocalCommits that empties the list when the fetch fails.
LoadLocalCommitsContinue_ClearsOnFailure(c, r) ==
  IF ~r.def
    THEN [ commits |-> commits, localCommitSHAs |-> <<>>, emitted |-> <<>> ]
    ELSE LET cs == storeCommits(commits, r.val)
         IN [ commits |-> cs, localCommitSHAs |-> r.val,
              emitted |-> <<emitUpdate(c, history, cs)>> ]

\* Lines 260-264, given what the await produced.
LoadLocalCommitsContinue(c, r) ==
  IF ~r.def
    THEN [ commits |-> commits, localCommitSHAs |-> localCommitSHAs,
           emitted |-> <<>> ]
    ELSE LET cs == storeCommits(commits, r.val)
         IN [ commits |-> cs, localCommitSHAs |-> r.val,
              emitted |-> <<emitUpdate(c, history, cs)>> ]

LoadLocalCommitsSettles(c) ==
  /\ calls[c].op = "loadLocalCommits"
  /\ calls[c].pc = "git"
  /\ \E outcome \in Outcomes(c, LocalCommitLists) :
       LET r == performFailableOperation(c, outcome, history, commits)
           k == LoadLocalCommitsContinue(c, r)
       IN /\ calls' = [Finish(c, r) EXCEPT ![c].val = r.val]
          /\ IF r.state = "rejected"
               THEN /\ events' = events \o r.emitted
                    /\ UNCHANGED <<commits, localCommitSHAs>>
               ELSE /\ commits' = k.commits
                    /\ localCommitSHAs' = k.localCommitSHAs
                    /\ events' = events \o r.emitted \o k.emitted
  /\ UNCHANGED <<parent, history, requestsInFight>>
  /\ UNCHANGED <<currentBranch, defaultBranch, allBranches, recentBranches,
                 contextualCommitMessage>>

(***************************************************************************)
(* undoCommit(commit) (git-store.ts 283-307).                              *)
(***************************************************************************)
\* Lines 286-298: a commit without parents needs the current branch, whose
\* ref is deleted; any other commit is undone by a mixed reset.
UndoCommitCall(commit) ==
  /\ Len(calls) < MaxOpCalls
  /\ IF commit.parentSHAs = <<>> /\ currentBranch = Null
       THEN calls' = Append(calls, Returned("undoCommit"))
       ELSE calls' = Append(calls,
              Call("undoCommit", "git", commit.sha, <<>>, "pending", 1))
  /\ UNCHANGED <<parent, history, commits, requestsInFight, events>>
  /\ UNCHANGED branchVars

\* Lines 300-306 without the `if (success)` test.
UndoCommitContinue_AlwaysSets(c, r, commit) ==
  [ contextualCommitMessage |->
      Some([ summary |-> commit.summary, description |-> commit.body ]),
    emitted |-> <<emitUpdate(c, history, commits)>> ]

\* Lines 300-306, given what the await produced for the commit.
UndoCommitContinue(c, r, commit) ==
  [ contextualCommitMessage |->
      IF r.def
        THEN Some([ summary |-> commit.summary, description |-> commit.body ])
        ELSE contextualCommitMessage,
    emitted |-> <<emitUpdate(c, history, commits)>> ]

UndoCommitSettles(c) ==
  /\ calls[c].op = "undoCommit"
  /\ calls[c].pc = "git"
  /\ \E outcome \in Outcomes(c, {TRUE}) :
       LET r == performFailableOperation(c, outcome, history, commits)
           k == UndoCommitContinue(c, r, Commit(calls[c].from))
       IN /\ calls' = Finish(c, r)
          /\ IF r.state = "rejected"
               THEN /\ events' = events \o r.emitted
                    /\ UNCHANGED contextualCommitMessage
               ELSE /\ contextualCommitMessage' = k.contextualCommitMessage
                    /\ events' = events \o r.emitted \o k.emitted
  /\ UNCHANGED <<parent, history, commits, requestsInFight>>
  /\ UNCHANGED <<currentBranch, defaultBranch, allBranches, recentBranches,
                 localCommitSHAs>>

(***************************************************************************)
(* loadBranches (git-store.ts 163-206) and the loadRecentBranches it       *)
(* starts without awaiting it (239-248).                                   *)
(***************************************************************************)
LoadBranchesCall ==
  /\ Len(calls) < MaxOpCalls
  /\ calls' = Append(calls, Call("loadBranches", "local", 0, <<>>, "pending", 1))
  /\ UNCHANGED <<parent, history, commits, requestsInFight, events>>
  /\ UNCHANGED branchVars

\* Lines 164-169: the local branches arrive, or [] on failure, and the
\* remote branches are asked for.
LoadBranchesLocalSettles(c) ==
  /\ calls[c].op = "loadBranches"
  /\ calls[c].pc = "local"
  /\ \E outcome \in Outcomes(c, LocalBranchLists) :
       LET r == performFailableOperation(c, outcome, history, commits)
       IN /\ events' = events \o r.emitted
          /\ IF r.state = "rejected"
               THEN calls' = Finish(c, r)
               ELSE calls' = [calls EXCEPT ![c].pc = "remote",
                                           ![c].nGit = 2,
                                           ![c].val = IF r.def THEN r.val
                                                      ELSE <<>>]
  /\ UNCHANGED <<parent, history, commits, requestsInFight>>
  /\ UNCHANGED branchVars

\* The merge without the upstreamBranchesAdded test of line 187.
MergeBranches_KeepsUpstreams(localBranches, remoteBranches) ==
  localBranches \o remoteBranches

\* Lines 174-191: the local branches, then the remote branches that are
\* not the upstream of a local branch.
MergeBranches(localBranches, remoteBranches) ==
  LET upstreamBranchesAdded ==
        { localBranches[i].upstream[1] :
            i \in { j \in 1..Len(localBranches) :
                      localBranches[j].upstream # Null } }
  IN localBranches
       \o SelectSeq(remoteBranches,
                    LAMBDA branch : branch.name \notin upstreamBranchesAdded)

\* b => b.tip over the branches (line 199).
Tips(branches) == [ i \in 1..Len(branches) |-> branches[i].tip ]

\* Lines 169-205: the remote branches arrive, or [] on failure; allBranches
\* is set, loadRecentBranches is started, and the tips are stored.
LoadBranchesRemoteSettles(c) ==
  /\ calls[c].op = "loadBranches"
  /\ calls[c].pc = "remote"
  /\ \E outcome \in Outcomes(c, RemoteBranchLists) :
       LET r == performFailableOperation(c, outcome, history, commits)
           all == MergeBranches(calls[c].val, IF r.def THEN r.val ELSE <<>>)
           tips == Tips(all)
           cs == commits \cup Range(tips)
       IN IF r.state = "rejected"
            THEN /\ calls' = Finish(c, r)
                 /\ events' = events \o r.emitted
                 /\ UNCHANGED <<commits, allBranches>>
            ELSE /\ allBranches' = all
                 /\ commits' = cs
                 /\ events' = events \o r.emitted
                      \o << emitUpdate(c, history, commits),
                            emitNewCommitsLoaded(c, tips, history, cs),
                            emitUpdate(c, history, cs) >>
                 /\ calls' = [calls EXCEPT ![c].pc = "recent", ![c].val = all,
                                           ![c].promise = "resolved",
                                           ![c].nGit = 3]
  /\ UNCHANGED <<parent, history, requestsInFight>>
  /\ UNCHANGED <<currentBranch, defaultBranch, recentBranches,
                 localCommitSHAs, contextualCommitMessage>>

\* getRecentBranches(repository, branches, limit) when it succeeds: the
\* first `limit` of the branches it was given.
RecentBranchLists(branches) ==
  { SubSeq(branches, 1, IF Len(branches) < RecentBranchesLimit
                          THEN Len(branches) ELSE RecentBranchesLimit) }

\* Lines 240-247: loadRecentBranches after its await.
LoadRecentBranchesSettles(c) ==
  /\ calls[c].op = "loadBranches"
  /\ calls[c].pc = "recent"
  /\ \E outcome \in Outcomes(c, RecentBranchLists(calls[c].val)) :
       LET r == performFailableOperation(c, outcome, history, commits)
       IN /\ calls' = [calls EXCEPT ![c].pc = "done"]
          /\ IF r.state = "rejected"
               THEN /\ events' = events \o r.emitted
                    /\ UNCHANGED recentBranches
               ELSE /\ recentBranches' = IF r.def THEN r.val ELSE <<>>
                    /\ events' = events \o r.emitted
                         \o <<emitUpdate(c, history, commits)>>
  /\ UNCHANGED <<parent, history, commits, requestsInFight>>
  /\ UNCHANGED <<currentBranch, defaultBranch, allBranches,
                 localCommitSHAs, contextualCommitMessage>>

(***************************************************************************)
(* loadCurrentAndDefaultBranch (git-store.ts 140-160) with loadBranch      *)
(* (212-224).  The repository has no GitHub repository with a default      *)
(* branch of its own, so the default branch name is 'master'.              *)
(***************************************************************************)
DefaultBranchName == "master"

LoadCurrentAndDefaultBranchCall ==
  /\ Len(calls) < MaxOpCalls
  /\ calls' = Append(calls,
       Call("loadCurrentAndDefaultBranch", "current", 0, <<>>, "pending", 1))
  /\ UNCHANGED <<parent, history, commits, requestsInFight, events>>
  /\ UNCHANGED branchVars

\* Lines 141-159: getCurrentBranch settles; without a branch the method
\* returns, on the default branch it is done, otherwise loadBranch starts.
CurrentBranchSettles(c) ==
  /\ calls[c].op = "loadCurrentAndDefaultBranch"
  /\ calls[c].pc = "current"
  /\ \E outcome \in Outcomes(c, {Null, Some(Master), Some(Topic)}) :
       LET r == performFailableOperation(c, outcome, history, commits)
       IN CASE r.state = "rejected" \/ ~r.def \/ r.val = Null ->
                 /\ calls' = Finish(c, r)
                 /\ events' = events \o r.emitted
                 /\ UNCHANGED <<currentBranch, defaultBranch>>
            [] OTHER ->
                 /\ currentBranch' = r.val
                 /\ IF r.val[1].name = DefaultBranchName
                      THEN /\ defaultBranch' = r.val
                           /\ events' = events \o r.emitted
                                \o <<emitUpdate(c, history, commits)>>
                           /\ calls' = Finish(c, r)
                      ELSE /\ calls' = [calls EXCEPT ![c].pc = "defaultLocal",
                                                     ![c].nGit = 2]
                           /\ events' = events \o r.emitted
                           /\ UNCHANGED defaultBranch
  /\ UNCHANGED <<parent, history, commits, requestsInFight>>
  /\ UNCHANGED <<allBranches, recentBranches, localCommitSHAs,
                 contextualCommitMessage>>

\* Lines 213-216 and 156-159: the local branches of that name arrive.
DefaultLocalSettles(c) ==
  /\ calls[c].op = "loadCurrentAndDefaultBranch"
  /\ calls[c].pc = "defaultLocal"
  /\ \E outcome \in Outcomes(c, { <<>>, <<Master>> }) :
       LET r == performFailableOperation(c, outcome, history, commits)
       IN CASE r.state = "rejected" ->
                 /\ calls' = Finish(c, r)
                 /\ events' = events \o r.emitted
                 /\ UNCHANGED defaultBranch
            [] r.state # "rejected" /\ r.def /\ Len(r.val) > 0 ->
                 /\ defaultBranch' = Some(r.val[1])
                 /\ events' = events \o r.emitted
                      \o <<emitUpdate(c, history, commits)>>
                 /\ calls' = Finish(c, r)
            [] OTHER ->
                 /\ calls' = [calls EXCEPT ![c].pc = "defaultRemote",
                                           ![c].nGit = 3]
                 /\ events' = events \o r.emitted
                 /\ UNCHANGED defaultBranch
  /\ UNCHANGED <<parent, history, commits, requestsInFight>>
  /\ UNCHANGED <<currentBranch, allBranches, recentBranches, localCommitSHAs,
                 contextualCommitMessage>>

\* Lines 218-223 and 156-159: the remote branches of that name arrive.
DefaultRemoteSettles(c) ==
  /\ calls[c].op = "loadCurrentAndDefaultBranch"
  /\ calls[c].pc = "defaultRemote"
  /\ \E outcome \in Outcomes(c, { <<>>, <<OriginMaster>> }) :
       LET r == performFailableOperation(c, outcome, history, commits)
       IN IF r.state = "rejected"
            THEN /\ calls' = Finish(c, r)
                 /\ events' = events \o r.emitted
                 /\ UNCHANGED defaultBranch
            ELSE /\ defaultBranch' = IF r.def /\ Len(r.val) > 0
                                       THEN Some(r.val[1]) ELSE Null
                 /\ events' = events \o r.emitted
                      \o <<emitUpdate(c, history, commits)>>
                 /\ calls' = [calls EXCEPT ![c].pc = "done",
                                           ![c].promise = "resolved"]
  /\ UNCHANGED <<parent, history, commits, requestsInFight>>
  /\ UNCHANGED <<currentBranch, allBranches, recentBranches, localCommitSHAs,
                 contextualCommitMessage>>

BranchInit ==
  /\ currentBranch = Null
  /\ defaultBranch = Null
  /\ allBranches = <<>>
  /\ recentBranches = <<>>
  /\ localCommitSHAs = <<>>
  /\ contextualCommitMessage = Null

\* The methods that write the commits map or history, and undoCommit,
\* with at most MaxOpCalls calls; the database is left alone.
OpsNext ==
  \/ /\ Len(calls) < MaxOpCalls /\ LoadHistoryCall
     /\ UNCHANGED branchVars /\ UNCHANGED <<dbVars, uiVars>>
  \/ /\ Len(calls) < MaxOpCalls /\ LoadNextHistoryBatchCall
     /\ UNCHANGED branchVars /\ UNCHANGED <<dbVars, uiVars>>
  \/ /\ \E c \in DOMAIN calls : GetCommitsSettles(c)
     /\ UNCHANGED branchVars /\ UNCHANGED <<dbVars, uiVars>>
  \/ /\ \E c \in DOMAIN calls : LoadHistoryResume(c)
     /\ UNCHANGED branchVars /\ UNCHANGED <<dbVars, uiVars>>
  \/ /\ \E c \in DOMAIN calls : LoadNextHistoryBatchResume(c)
     /\ UNCHANGED branchVars /\ UNCHANGED <<dbVars, uiVars>>
  \/ LoadLocalCommitsCall /\ UNCHANGED <<dbVars, uiVars>>
  \/ (\E c \in DOMAIN calls : LoadLocalCommitsSettles(c)) /\ UNCHANGED <<dbVars, uiVars>>
  \/ (\E sha \in SHAs : UndoCommitCall(Commit(sha))) /\ UNCHANGED <<dbVars, uiVars>>
  \/ (\E c \in DOMAIN calls : UndoCommitSettles(c)) /\ UNCHANGED <<dbVars, uiVars>>
  \/ LoadBranchesCall /\ UNCHANGED <<dbVars, uiVars>>
  \/ (\E c \in DOMAIN calls : LoadBranchesLocalSettles(c)) /\ UNCHANGED <<dbVars, uiVars>>
  \/ (\E c \in DOMAIN calls : LoadBranchesRemoteSettles(c)) /\ UNCHANGED <<dbVars, uiVars>>
  \/ (\E c \in DOMAIN calls : LoadRecentBranchesSettles(c)) /\ UNCHANGED <<dbVars, uiVars>>

\* undoCommit with the method that sets the current branch.
UndoNext ==
  \/ LoadCurrentAndDefaultBranchCall /\ UNCHANGED <<dbVars, uiVars>>
  \/ (\E c \in DOMAIN calls : CurrentBranchSettles(c)) /\ UNCHANGED <<dbVars, uiVars>>
  \/ (\E c \in DOMAIN calls : DefaultLocalSettles(c)) /\ UNCHANGED <<dbVars, uiVars>>
  \/ (\E c \in DOMAIN calls : DefaultRemoteSettles(c)) /\ UNCHANGED <<dbVars, uiVars>>
  \/ (\E sha \in SHAs : UndoCommitCall(Commit(sha))) /\ UNCHANGED <<dbVars, uiVars>>
  \/ (\E c \in DOMAIN calls : UndoCommitSettles(c)) /\ UNCHANGED <<dbVars, uiVars>>

(***************************************************************************)
(* AppWindow (app/src/main-process/app-window.ts): load(), the listeners   *)
(* it registers on the web contents and on ipcMain, and the 'did-load'     *)
(* event.  An event of the web contents runs every listener registered     *)
(* for it, in the order of registration; a `once` listener runs once.      *)
(***************************************************************************)
\* `!!x` for a `number | null` (line 117): null and 0 convert to false.
Truthy(x) == x # Null /\ x[1] # 0

\* The getter rendererLoaded (lines 116-118).
rendererLoaded(lt, rt) == Truthy(lt) /\ Truthy(rt)

\* maybeEmitDidLoad (lines 109-113), called from a listener of load() l
\* when the two fields are lt and rt: what the emitter emits.
maybeEmitDidLoad(l, lt, rt) ==
  IF ~rendererLoaded(lt, rt) THEN <<>> ELSE <<l>>

\* The calls of load() whose `once` listener for the event is registered,
\* in the order of registration.
Registered(event) ==
  SelectSeq([ l \in 1..Len(listeners) |-> l ],
            LAMBDA l : listeners[l][event])

\* load() (lines 59-103): the listeners are registered and loadURL is
\* called.
Load ==
  /\ Len(listeners) < MaxLoads
  /\ listeners' = Append(listeners,
       [ startLoad |-> 0, didStartLoading |-> TRUE,
         didFinishLoad |-> TRUE, rendererReady |-> TRUE ])
  /\ page' = "requested"
  /\ UNCHANGED <<loadTime, rendererReadyTime, didLoad, now>>
  /\ UNCHANGED formVars

\* 'did-start-loading' (lines 67-72).
DidStartLoading ==
  /\ page \in {"requested", "loading"}
  /\ page' = "loading"
  /\ listeners' =
       [ l \in DOMAIN listeners |->
           IF listeners[l].didStartLoading
             THEN [listeners[l] EXCEPT !.didStartLoading = FALSE,
                                       !.startLoad = now]
             ELSE listeners[l] ]
  /\ IF Registered("didStartLoading") = <<>>
       THEN UNCHANGED <<loadTime, rendererReadyTime>>
       ELSE loadTime' = Null /\ rendererReadyTime' = Null
  /\ UNCHANGED <<didLoad, now>>
  /\ UNCHANGED formVars

\* 'did-finish-load' (lines 74-83): each listener sets _loadTime to the
\* time since its startLoad and calls maybeEmitDidLoad.
DidFinishLoad ==
  /\ page = "loading"
  /\ LET ls == Registered("didFinishLoad")
         lt(l) == Some(now - listeners[l].startLoad)
     IN /\ loadTime' = IF ls = <<>> THEN loadTime ELSE lt(ls[Len(ls)])
        /\ didLoad' = didLoad \o
             SelectSeq(ls, LAMBDA l :
               maybeEmitDidLoad(l, lt(l), rendererReadyTime) # <<>>)
  /\ listeners' = [ l \in DOMAIN listeners |->
                      [listeners[l] EXCEPT !.didFinishLoad = FALSE] ]
  /\ UNCHANGED <<rendererReadyTime, page, now>>
  /\ UNCHANGED formVars

\* 'renderer-ready' with the renderer's readyTime (lines 91-95).
RendererReady(readyTime) ==
  /\ page = "loading"
  /\ LET ls == Registered("rendererReady")
     IN /\ rendererReadyTime' = IF ls = <<>> THEN rendererReadyTime
                                ELSE Some(readyTime)
        /\ didLoad' = didLoad \o
             SelectSeq(ls, LAMBDA l :
               maybeEmitDidLoad(l, loadTime, Some(readyTime)) # <<>>)
  /\ listeners' = [ l \in DOMAIN listeners |->
                      [listeners[l] EXCEPT !.rendererReady = FALSE] ]
  /\ UNCHANGED <<loadTime, page, now>>
  /\ UNCHANGED formVars

\* A millisecond passes.
Tick ==
  /\ now < MaxTime
  /\ now' = now + 1
  /\ UNCHANGED <<loadTime, rendererReadyTime, listeners, didLoad, page>>
  /\ UNCHANGED formVars

\* Lines 18-19, and a window that has loaded nothing yet.
WindowInit ==
  /\ loadTime = Null
  /\ rendererReadyTime = Null
  /\ listeners = <<>>
  /\ didLoad = <<>>
  /\ page = "none"
  /\ now = 1

\* The window with the stores idle.
WindowNext ==
  \/ Load /\ UNCHANGED storeVars
  \/ DidStartLoading /\ UNCHANGED storeVars
  \/ DidFinishLoad /\ UNCHANGED storeVars
  \/ (\E readyTime \in 0..MaxReadyTime : RendererReady(readyTime))
       /\ UNCHANGED storeVars
  \/ Tick /\ UNCHANGED storeVars

(***************************************************************************)
(* AddExistingRepository                                                   *)
(* (app/src/ui/add-repository/add-existing-repository.tsx): the path       *)
(* checks started by onPathChanged and showFilePicker.                     *)
(***************************************************************************)
\* The paths the user enters.
EnteredPaths == {"/repo", "/repo/", "/dir", "/missing"}

\* The file system: the directories FS.stat finds, and those of them that
\* isGitRepository finds to be repositories.
Directories == {"/repo", "/dir"}

GitRepositories == {"/repo"}

\* resolvedPath (lines 138-140): Path.resolve gives an absolute path
\* without the trailing separator.
resolvedPath(path) == IF path = "/repo/" THEN "/repo" ELSE path

\* pathExists (lines 107-117): FS.stat of the path as entered gives the
\* Stats of a directory, or fails, and the promise is rejected.
pathExists(path) ==
  IF path \in Directories \/ resolvedPath(path) \in Directories
    THEN "resolved" ELSE "rejected"

\* Lines 119-123, up to the first await.
CheckIfPathIsRepository(path) ==
  /\ Len(checks) < MaxChecks
  /\ formState' = [formState EXCEPT !.path = path]
  /\ checkGitRepositoryToken' = checkGitRepositoryToken + 1
  /\ checks' = Append(checks,
       [ path |-> path, token |-> checkGitRepositoryToken + 1,
         pc |-> "pathExists", promise |-> "pending", setState |-> FALSE ])
  /\ UNCHANGED windowVars

\* Lines 123-129: pathExists settles.  A rejection is thrown out of the
\* method; a Stats object is truthy, and isGitRepository is called.
PathExistsSettles(c) ==
  /\ checks[c].pc = "pathExists"
  /\ IF pathExists(checks[c].path) = "rejected"
       THEN checks' = [checks EXCEPT ![c].pc = "done",
                                     ![c].promise = "rejected"]
       ELSE checks' = [checks EXCEPT ![c].pc = "isGitRepository"]
  /\ UNCHANGED <<formState, checkGitRepositoryToken>>
  /\ UNCHANGED windowVars

\* Lines 128-135: isGitRepository settles, the token is compared, and the
\* state is set.
IsGitRepositorySettles(c) ==
  /\ checks[c].pc = "isGitRepository"
  /\ LET isRepo == resolvedPath(checks[c].path) \in GitRepositories
     IN IF checks[c].token # checkGitRepositoryToken
          THEN /\ checks' = [checks EXCEPT ![c].pc = "done",
                                           ![c].promise = "resolved"]
               /\ UNCHANGED formState
          ELSE /\ formState' =
                    [formState EXCEPT !.gitRepository = isRepo,
                                      !.showNonGitRepositoryWarning = ~isRepo]
               /\ checks' = [checks EXCEPT ![c].pc = "done",
                                           ![c].promise = "resolved",
                                           ![c].setState = TRUE]
  /\ UNCHANGED checkGitRepositoryToken
  /\ UNCHANGED windowVars

\* Lines 32-42.
FormInit ==
  /\ formState = [ path |-> "", gitRepository |-> FALSE,
                   showNonGitRepositoryWarning |-> FALSE ]
  /\ checkGitRepositoryToken = 0
  /\ checks = <<>>

\* The form with the stores idle.
FormNext ==
  \/ (\E path \in EnteredPaths : CheckIfPathIsRepository(path))
       /\ UNCHANGED storeVars
  \/ (\E c \in DOMAIN checks : PathExistsSettles(c)) /\ UNCHANGED storeVars
  \/ (\E c \in DOMAIN checks : IsGitRepositorySettles(c))
       /\ UNCHANGED storeVars

(***************************************************************************)
(* The specifications: the GitStore of one repository, and the             *)
(* RepositoriesStore on an empty database.  The two components share no    *)
(* state, so each is explored with the other one idle.                     *)
(***************************************************************************)
GitIdle ==
  /\ parent = [c \in SHAs |-> c - 1]
  /\ history = <<>>
  /\ commits = {}
  /\ requestsInFight = {}
  /\ calls = <<>>
  /\ events = <<>>

Init == GitInit /\ BranchInit /\ DBInit /\ WindowInit /\ FormInit

Next == GitNext /\ UNCHANGED branchVars /\ UNCHANGED <<dbVars, uiVars>>

Spec == Init /\ [][Next]_vars

StoreInit == GitIdle /\ BranchInit /\ DBInit /\ WindowInit /\ FormInit

StoreNext == DBNext /\ UNCHANGED <<gitVars, branchVars, uiVars>>

\* The GitStore on the linear history 1 <- 2 <- ... .
OpsInit == GitIdle /\ BranchInit /\ DBInit /\ WindowInit /\ FormInit

SpecOps == OpsInit /\ [][OpsNext]_vars

SpecUndo == OpsInit /\ [][UndoNext]_vars

SpecStore == StoreInit /\ [][StoreNext]_vars

StoreFaultNext == FaultNext /\ UNCHANGED <<gitVars, branchVars, uiVars>>

SpecStoreFaults == StoreInit /\ [][StoreFaultNext]_vars

SpecWindow == StoreInit /\ [][WindowNext]_vars

SpecForm == StoreInit /\ [][FormNext]_vars

(***************************************************************************)
(* Properties of the GitStore, checked under Spec.                         *)
(***************************************************************************)
HistoryOps == {"loadHistory", "loadNextHistoryBatch"}

\* The deliveries made on behalf of call c, in order.
EventsOf(c) == SelectSeq(events, LAMBDA e : e.call = c)

Kinds(es) == [ i \in 1..Len(es) |-> es[i].kind ]

\* The (new-commits, update) notifications of call c.
LoadNotifications(c) ==
  Kinds(SelectSeq(events, LAMBDA e : e.call = c /\ e.kind # "did-error"))

\* This step is a new call of method op.
IsCall(op) ==
  /\ Len(calls') = Len(calls) + 1
  /\ calls'[Len(calls')].op = op

\* This step is call c's awaited Git command settling.
IsSettle(c) == calls[c].pc = "git" /\ calls'[c].pc = "resume"

\* This step is the continuation of call c, after which it has returned.
IsResume(c) == calls[c].pc = "resume" /\ calls'[c].pc = "done"

\* C1: a loadHistory() called while an earlier loadHistory() has not yet
\* returned from its fetch is a no-op: it returns at once, invokes no Git
\* command, changes nothing and notifies nobody; so the two calls together
\* invoke git log once (the first call's) and deliver at most one
\* (new-commits, update) pair, exactly one when the first call's fetch
\* succeeds.
C1_LoadDeduplication ==
  /\ [][ \A c1 \in DOMAIN calls :
           ( /\ calls[c1].op = "loadHistory"
             /\ calls[c1].pc # "done"
             /\ IsCall("loadHistory") )
           => LET c2 == Len(calls')
              IN /\ calls'[c2].pc = "done"
                 /\ calls'[c2].promise = "resolved"
                 /\ calls'[c2].nGit = 0
                 /\ calls[c1].nGit + calls'[c2].nGit = 1
                 /\ \A c \in DOMAIN calls : calls'[c] = calls[c]
                 /\ UNCHANGED <<history, commits, requestsInFight, events>>
     ]_vars
  /\ [](\A c \in DOMAIN calls :
          calls[c].op = "loadHistory" =>
            /\ calls[c].nGit = 0 => EventsOf(c) = <<>>
            /\ LoadNotifications(c) \in
                 { <<>>, <<"did-load-new-commits", "did-update">> }
            /\ (calls[c].pc = "done" /\ calls[c].def)
                 => LoadNotifications(c) = <<"did-load-new-commits", "did-update">>)

\* C1 witness: the second loadHistory() has returned without a fetch while
\* the first is still waiting for git log.
C1_Witness ==
  \E c1, c2 \in DOMAIN calls :
    /\ c1 < c2
    /\ calls[c1].op = "loadHistory" /\ calls[c1].pc = "git"
    /\ calls[c2].op = "loadHistory" /\ calls[c2].pc = "done"
    /\ calls[c2].nGit = 0

\* C2: a loadHistory() or loadNextHistoryBatch() whose Git command fails
\* changes neither history nor commits in any of its steps (only the
\* continuation of a call whose fetch succeeded ever changes them), fires
\* no new-commits or update notification, and fires did-error exactly once.
C2_FailureIsolation ==
  /\ [][ /\ (history' # history \/ commits' # commits)
              => \E c \in DOMAIN calls :
                   calls[c].op \in HistoryOps /\ IsResume(c) /\ calls[c].def
         /\ \A c \in DOMAIN calls :
              (calls[c].op \in HistoryOps /\ IsResume(c) /\ ~calls[c].def)
                => /\ UNCHANGED <<history, commits, events>>
                   /\ calls'[c].promise = "resolved"
     ]_vars
  /\ [](\A c \in DOMAIN calls :
          ( /\ calls[c].op \in HistoryOps
            /\ calls[c].pc \in {"resume", "done"}
            /\ calls[c].nGit = 1
            /\ ~calls[c].def )
          => Kinds(EventsOf(c)) = <<"did-error">>)

\* C2 witness: a loadNextHistoryBatch() on a loaded history has returned
\* after its fetch failed.
C2_Witness ==
  \E c \in DOMAIN calls :
    /\ calls[c].op = "loadNextHistoryBatch"
    /\ calls[c].pc = "done" /\ calls[c].nGit = 1 /\ ~calls[c].def
    /\ history # <<>>

\* C3: when loadHistory()'s continuation runs on a fetched batch B with a
\* non-empty history H whose first SHA is at position i of B (counting from
\* 0), the history becomes B[0..i) followed by all of H; for i = 0 it stays H.
C3_HistoryPrefixSplice ==
  [][ \A c \in DOMAIN calls :
        ( /\ calls[c].op = "loadHistory" /\ IsResume(c) /\ calls[c].def
          /\ history # <<>>
          /\ history[1] \in Range(calls[c].val) )
        => LET B == calls[c].val
               i == CHOOSE k \in 0..(Len(B) - 1) :
                      B[k + 1] = history[1] /\ \A j \in 1..k : B[j] # history[1]
           IN /\ Len(history') = i + Len(history)
              /\ \A k \in 1..i : history'[k] = B[k]
              /\ \A k \in 1..Len(history) : history'[i + k] = history[k]
              /\ (i = 0 => history' = history)
    ]_vars

\* C3 witness: a loadHistory() delivered a non-empty proper prefix of its
\* batch as the new commits, in front of an older history.
C3_Witness ==
  \E n \in 1..Len(events) :
    LET e == events[n]
    IN /\ e.kind = "did-load-new-commits"
       /\ calls[e.call].op = "loadHistory"
       /\ 0 < Len(e.commits)
       /\ Len(e.commits) < Len(calls[e.call].val)
       /\ Len(e.seenHistory) > Len(e.commits)
       /\ e.seenHistory[Len(e.commits) + 1] = calls[e.call].val[Len(e.commits) + 1]

\* C4: when loadHistory()'s continuation runs on a fetched batch B and the
\* history is empty, or its first SHA is nowhere in B, the history becomes
\* exactly B, and no earlier entry that is absent from B survives.
C4_DivergenceReset ==
  [][ \A c \in DOMAIN calls :
        ( /\ calls[c].op = "loadHistory" /\ IsResume(c) /\ calls[c].def
          /\ (history = <<>> \/ history[1] \notin Range(calls[c].val)) )
        => /\ history' = calls[c].val
           /\ Range(history') \cap (Range(history) \ Range(calls[c].val)) = {}
    ]_vars

\* C4 witness: a loadHistory() replaced a non-empty history whose first SHA
\* was not in the batch, and an entry of the old history is gone.
C4_Witness ==
  \E n \in 2..Len(events) :
    LET e == events[n]
        old == events[n - 1].seenHistory
    IN /\ e.kind = "did-load-new-commits"
       /\ calls[e.call].op = "loadHistory"
       /\ old # <<>>
       /\ old[1] \notin Range(calls[e.call].val)
       /\ e.seenHistory = calls[e.call].val
       /\ Range(old) \ Range(e.seenHistory) # {}

\* C5: the continuation of a successful loadHistory() or
\* loadNextHistoryBatch() delivers exactly did-load-new-commits and then
\* did-update, both deliveries see the history and commits the call leaves
\* behind, and the call has delivered both whenever its promise is resolved
\* (and neither before its continuation runs).
C5_NotificationOrdering ==
  /\ [][ \A c \in DOMAIN calls :
           (calls[c].op \in HistoryOps /\ IsResume(c) /\ calls[c].def)
           => /\ Len(events') = Len(events) + 2
              /\ SubSeq(events', 1, Len(events)) = events
              /\ LET e1 == events'[Len(events) + 1]
                     e2 == events'[Len(events) + 2]
                 IN /\ e1.kind = "did-load-new-commits" /\ e1.call = c
                    /\ e2.kind = "did-update" /\ e2.call = c
                    /\ e1.seenHistory = history' /\ e1.seenCommits = commits'
                    /\ e2.seenHistory = history' /\ e2.seenCommits = commits'
              /\ calls'[c].promise = "resolved"
     ]_vars
  /\ [](\A c \in DOMAIN calls :
          calls[c].op \in HistoryOps =>
            /\ (calls[c].promise = "resolved" /\ calls[c].def)
                 => LoadNotifications(c) = <<"did-load-new-commits", "did-update">>
            /\ calls[c].promise = "pending" => LoadNotifications(c) = <<>>)

\* C5 witness: both methods have completed a successful load.
C5_Witness ==
  \E c1, c2 \in DOMAIN calls :
    /\ calls[c1].op = "loadHistory" /\ calls[c2].op = "loadNextHistoryBatch"
    /\ calls[c1].promise = "resolved" /\ calls[c1].def
    /\ calls[c2].promise = "resolved" /\ calls[c2].def
    /\ calls[c2].val # <<>>

\* C6: performFailableOperation never rejects.  When the operation fails it
\* delivers exactly one did-error carrying that failure and yields
\* undefined; when the operation succeeds it yields the operation's result
\* and delivers nothing.
C6_PerformFailableOperation ==
  /\ [](\A c \in DOMAIN calls : calls[c].pfo # "rejected")
  /\ [][ \A c \in DOMAIN calls :
           (calls[c].op \in HistoryOps /\ IsSettle(c))
           => /\ calls'[c].pfo = "resolved"
              /\ \/ /\ calls'[c].def
                    /\ \E o \in GitLogOutcomes(c) : o.ok /\ calls'[c].val = o.val
                    /\ events' = events
                 \/ /\ ~calls'[c].def
                    /\ Len(events') = Len(events) + 1
                    /\ SubSeq(events', 1, Len(events)) = events
                    /\ events'[Len(events')].kind = "did-error"
                    /\ \E o \in GitLogOutcomes(c) :
                         ~o.ok /\ events'[Len(events')].error = o.err
     ]_vars

\* C6 witness: one wrapped operation failed and another succeeded.
C6_Witness ==
  \E c1, c2 \in DOMAIN calls :
    /\ calls[c1].pfo = "resolved" /\ ~calls[c1].def
    /\ calls[c2].pfo = "resolved" /\ calls[c2].def
    /\ Kinds(EventsOf(c1)) = <<"did-error">>

\* C7: no call of a public GitStore method ends with a rejected promise.
\* fetch() refutes it: its two awaits are not wrapped.
C7_NoFailurePropagates ==
  \A c \in DOMAIN calls : calls[c].promise # "rejected"

\* C17: history holds no SHA twice.  A loadHistory() that runs while a
\* loadNextHistoryBatch() is waiting for its fetch, and resets history to a
\* log that has diverged, refutes it: the batch is then appended to a history
\* it was not fetched for.
C17_NoDuplicateSHAs ==
  \A i, j \in 1..Len(history) : history[i] = history[j] => i = j

\* C18: a loadNextHistoryBatch() called while history is empty, or while
\* the key "history" or the key of the batch after the current last SHA is
\* in flight, returns at once: no Git command, no change of history,
\* commits or the in-flight set, no notification.  So a second call made
\* while the first still waits for the batch after the same last SHA adds
\* no fetch to the first one's, and only the first can append.
C18_NextBatchGuard ==
  /\ [][ ( /\ IsCall("loadNextHistoryBatch")
           /\ \/ Len(history) = 0
              \/ <<"history">> \in requestsInFight
              \/ <<"history", history[Len(history)]>> \in requestsInFight )
         => LET c2 == Len(calls')
            IN /\ calls'[c2].pc = "done"
               /\ calls'[c2].promise = "resolved"
               /\ calls'[c2].nGit = 0
               /\ \A c \in DOMAIN calls : calls'[c] = calls[c]
               /\ UNCHANGED <<history, commits, requestsInFight, events>>
     ]_vars
  /\ [][ \A c1 \in DOMAIN calls :
           ( /\ calls[c1].op = "loadNextHistoryBatch"
             /\ calls[c1].pc = "git"
             /\ history # <<>> /\ calls[c1].from = history[Len(history)]
             /\ IsCall("loadNextHistoryBatch") )
           => /\ calls[c1].nGit + calls'[Len(calls')].nGit = 1
              /\ calls'[Len(calls')].pc = "done"
              /\ history' = history
     ]_vars
  /\ [](\A c \in DOMAIN calls :
          (calls[c].op = "loadNextHistoryBatch" /\ calls[c].nGit = 0)
            => EventsOf(c) = <<>>)

\* C18 witness: the second loadNextHistoryBatch() has returned without a
\* fetch while the first still waits for the batch after the last SHA.
C18_Witness ==
  \E c1, c2 \in DOMAIN calls :
    /\ c1 < c2
    /\ calls[c1].op = "loadNextHistoryBatch" /\ calls[c1].pc = "git"
    /\ calls[c2].op = "loadNextHistoryBatch" /\ calls[c2].pc = "done"
    /\ calls[c2].nGit = 0
    /\ history # <<>> /\ calls[c1].from = history[Len(history)]
    /\ requestsInFight = { <<"history", calls[c1].from>> }

\* C19: every key in the in-flight set is the key of a call that has not
\* returned yet.  A call whose fetch failed refutes it: it returns without
\* removing its key.
C19_KeyOnlyWhileServiced ==
  \A key \in requestsInFight :
    \E c \in DOMAIN calls : calls[c].key = key /\ calls[c].pc # "done"

\* C22: whenever the continuation of a loadNextHistoryBatch() appends its
\* batch, the last SHA of history is the SHA the batch was fetched after.
\* A loadHistory() that replaced history while the batch was being fetched
\* refutes it.
C22_BatchAppendedToItsHistory ==
  [][ \A c \in DOMAIN calls :
        ( /\ IsResume(c)
          /\ calls[c].op = "loadNextHistoryBatch"
          /\ calls[c].def )
        => /\ history # <<>>
           /\ history[Len(history)] = calls[c].from
    ]_vars

\* C23: the continuation of a loadNextHistoryBatch() whose fetch succeeded
\* leaves the entries of history where they were, puts the fetched SHAs
\* after them in the order fetched, and every fetched SHA is then a key of
\* commits.
C23_NextBatchOnlyAppends ==
  [][ \A c \in DOMAIN calls :
        ( /\ IsResume(c)
          /\ calls[c].op = "loadNextHistoryBatch"
          /\ calls[c].def )
        => /\ Len(history') = Len(history) + Len(calls[c].val)
           /\ \A i \in 1..Len(history) : history'[i] = history[i]
           /\ \A i \in 1..Len(calls[c].val) :
                /\ history'[Len(history) + i] = calls[c].val[i]
                /\ calls[c].val[i] \in commits'
    ]_vars

\* C23 witness: the first batch was <<3, 2>>, the next batch <<1>> was
\* fetched after 2 and appended.
C23_Witness ==
  \E c1, c2 \in DOMAIN calls :
    /\ calls[c1].op = "loadHistory" /\ calls[c1].pc = "done"
    /\ calls[c1].val = <<3, 2>>
    /\ calls[c2].op = "loadNextHistoryBatch" /\ calls[c2].pc = "done"
    /\ calls[c2].def /\ calls[c2].from = 2 /\ calls[c2].val = <<1>>
    /\ history = <<3, 2, 1>>
    /\ commits = {1, 2, 3}

(***************************************************************************)
(* Properties of the RepositoriesStore, checked under SpecStore.           *)
(***************************************************************************)
\* The Repository whose remote call c upserts.
Upserted(c) ==
  IF storeCalls[c].op = "addRepository"
    THEN storeCalls[c].withID[1]
    ELSE storeCalls[c].repo

\* This step is the upsert transaction of call c.
IsUpsert(c) == storeCalls[c].pc = "upsert" /\ storeCalls'[c].pc = "done"

\* This step is addRepository call c returning.
IsAddReturn(c) ==
  /\ storeCalls[c].op = "addRepository"
  /\ storeCalls[c].pc # "done"
  /\ storeCalls'[c].pc = "done"

\* C8: no step changes the id of a local row; once a local row references a
\* remote row it references that row for ever, that row keeps its id, and an
\* upsert for a linked local row adds no remote row.
C8_IdentifierStability ==
  [][ /\ Len(repositories') >= Len(repositories)
      /\ \A i \in 1..Len(repositories) :
           LET link == repositories[i].gitHubRepositoryID
           IN /\ repositories'[i].id = repositories[i].id
              /\ repositories'[i].id = i
              /\ link # 0 =>
                   /\ repositories'[i].gitHubRepositoryID = link
                   /\ gitHubRepositories'[link].id = gitHubRepositories[link].id
                   /\ gitHubRepositories'[link].id = link
      /\ \A c \in DOMAIN storeCalls :
           ( /\ IsUpsert(c)
             /\ repositories[Upserted(c).id[1]].gitHubRepositoryID # 0 )
           => Len(gitHubRepositories') = Len(gitHubRepositories)
    ]_vars

\* C8 witness: a repository that was added with a remote has since been
\* upserted with another payload, which is what its remote row now holds.
C8_Witness ==
  \E c1, c2 \in DOMAIN storeCalls :
    /\ c1 # c2
    /\ storeCalls[c1].op = "addRepository"
    /\ storeCalls[c2].op = "updateGitHubRepository"
    /\ storeCalls[c1].promise = "resolved" /\ storeCalls[c2].promise = "resolved"
    /\ Upserted(c1).id = Upserted(c2).id
    /\ Upserted(c1).gitHubRepository # Null
    /\ Upserted(c1).gitHubRepository[1].name # Upserted(c2).gitHubRepository[1].name
    /\ LET row == repositories[Upserted(c2).id[1]]
       IN gitHubRepositories[row.gitHubRepositoryID].name
            = Upserted(c2).gitHubRepository[1].name

\* C9: the owners table never holds two rows whose logins are equal up to
\* letter case, whatever their endpoints; and an upsert for an unlinked
\* local repository links it to the owner row with the payload's login up
\* to case, which is the existing row when there was one.
C9_OwnerReuse ==
  /\ [](\A i, j \in 1..Len(owners) :
          ToLowerCase(owners[i].login) = ToLowerCase(owners[j].login) => i = j)
  /\ [][ \A c \in DOMAIN storeCalls :
           ( /\ IsUpsert(c)
             /\ repositories[Upserted(c).id[1]].gitHubRepositoryID = 0 )
           => LET login == Upserted(c).gitHubRepository[1].owner.login
                  row == repositories'[Upserted(c).id[1]]
                  ownerID == gitHubRepositories'[row.gitHubRepositoryID].ownerID
              IN /\ ToLowerCase(owners'[ownerID].login) = ToLowerCase(login)
                 /\ \A i \in 1..Len(owners) :
                      ToLowerCase(owners[i].login) = ToLowerCase(login)
                        => ownerID = i /\ owners' = owners
     ]_vars

\* C9 witness: two local repositories were upserted with owners that differ
\* in letter case, and a third with the same login on another endpoint, and
\* all their remote rows reference the one owner row.
C9_Witness ==
  \E c1, c2, c3 \in DOMAIN storeCalls :
    /\ storeCalls[c1].pc = "done" /\ Upserted(c1).gitHubRepository = Some(
         GitHubRepository("my-repo", MyUser, TRUE, FALSE,
                          "https://github.com/my-user/my-repo"))
    /\ storeCalls[c2].pc = "done"
    /\ Upserted(c2).gitHubRepository # Null
    /\ Upserted(c2).gitHubRepository[1].owner = MyUserUpperCase
    /\ storeCalls[c3].pc = "done"
    /\ Upserted(c3).gitHubRepository # Null
    /\ Upserted(c3).gitHubRepository[1].owner = MyUserEnterprise
    /\ Len(repositories) = 3 /\ Len(gitHubRepositories) = 3
    /\ Len(owners) = 1
    /\ \A i \in 1..3 : /\ repositories[i].gitHubRepositoryID = i
                       /\ gitHubRepositories[i].ownerID = 1

\* C10: when addRepository(x) returns, getRepositories() has an entry with
\* x's path and the returned id whose remote equals x's remote (name, owner,
\* private, fork, htmlURL), or is null when x has none.
C10_RoundTrip ==
  [][ \A c \in DOMAIN storeCalls :
        IsAddReturn(c)
        => \E i \in DOMAIN getRepositories' :
             LET entry == getRepositories'[i]
             IN /\ entry.path = storeCalls[c].repo.path
                /\ entry.id = storeCalls'[c].withID[1].id
                /\ entry.gitHubRepository = storeCalls[c].repo.gitHubRepository
    ]_vars

\* C11: when updateGitHubRepository(r) returns, for a local row that had no
\* remote as for one that had, getRepositories() has an entry with r's id
\* whose remote has the payload's name, private, fork and htmlURL.
C11_UpsertIsListed ==
  [][ \A c \in DOMAIN storeCalls :
        ( /\ storeCalls[c].op = "updateGitHubRepository"
          /\ storeCalls[c].pc = "upsert"
          /\ storeCalls'[c].pc = "done"
          /\ storeCalls'[c].promise = "resolved" )
        => LET r == storeCalls[c].repo
               payload == r.gitHubRepository[1]
           IN \E i \in DOMAIN getRepositories' :
                LET entry == getRepositories'[i]
                IN /\ entry.id = r.id
                   /\ entry.gitHubRepository # Null
                   /\ entry.gitHubRepository[1].name = payload.name
                   /\ entry.gitHubRepository[1].private = payload.private
                   /\ entry.gitHubRepository[1].fork = payload.fork
                   /\ entry.gitHubRepository[1].htmlURL = payload.htmlURL
    ]_vars

\* C11 witness: a repository added without a remote was upserted twice, the
\* first time unlinked and the second time linked, with payloads that differ
\* in every listed field; the list shows the second payload.
C11_Witness ==
  \E c0, c1, c2 \in DOMAIN storeCalls :
    /\ c0 < c1 /\ c1 < c2
    /\ storeCalls[c0].op = "addRepository"
    /\ storeCalls[c0].repo.gitHubRepository = Null
    /\ storeCalls[c0].promise = "resolved"
    /\ \A c \in {c1, c2} :
         /\ storeCalls[c].op = "updateGitHubRepository"
         /\ storeCalls[c].promise = "resolved"
         /\ storeCalls[c].repo.id = storeCalls[c0].withID[1].id
    /\ LET p1 == storeCalls[c1].repo.gitHubRepository[1]
           p2 == storeCalls[c2].repo.gitHubRepository[1]
           entry == getRepositories[storeCalls[c0].withID[1].id[1]]
       IN /\ p1.name # p2.name /\ p1.private # p2.private
          /\ p1.fork # p2.fork /\ p1.htmlURL # p2.htmlURL
          /\ entry.gitHubRepository[1].name = p2.name
          /\ entry.gitHubRepository[1].htmlURL = p2.htmlURL

\* C12: a call of updateGitHubRepository whose argument has no id or no
\* remote fails, queues no transaction and changes none of the three tables,
\* then or later.
C12_ContractViolation ==
  [][ /\ Len(storeCalls') > Len(storeCalls)
      /\ LET call == storeCalls'[Len(storeCalls')]
         IN /\ call.op = "updateGitHubRepository"
            /\ call.repo.id = Null \/ call.repo.gitHubRepository = Null
      => /\ storeCalls'[Len(storeCalls')].pc = "done"
         /\ storeCalls'[Len(storeCalls')].promise = "rejected"
         /\ transactions' = transactions
         /\ <<repositories, gitHubRepositories, owners>>'
              = <<repositories, gitHubRepositories, owners>>
    ]_vars

\* C12 witness: on a database that holds a linked repository, one call
\* without an id and one without a remote have both failed.
C12_Witness ==
  \E c1, c2 \in DOMAIN storeCalls :
    /\ storeCalls[c1].op = "updateGitHubRepository"
    /\ storeCalls[c1].repo.id = Null
    /\ storeCalls[c1].promise = "rejected"
    /\ storeCalls[c2].op = "updateGitHubRepository"
    /\ storeCalls[c2].repo.id # Null
    /\ storeCalls[c2].repo.gitHubRepository = Null
    /\ storeCalls[c2].promise = "rejected"
    /\ Len(repositories) = 1 /\ repositories[1].gitHubRepositoryID = 1

(***************************************************************************)
(* Properties of the RepositoriesStore under storage failures and          *)
(* crashes, checked under SpecStoreFaults.                                 *)
(***************************************************************************)
\* C13: the step in which the upsert transaction of a call ends, which is
\* the only step in which other operations can see its effect, either
\* leaves the three tables as they were and fails the call, or leaves the
\* local row linked to a remote row that holds the payload and references
\* an owner row, and the call succeeds; no state has some of the writes.
C13_UpsertAtomic ==
  [][ \A c \in DOMAIN storeCalls :
        IsUpsert(c)
        => LET id == Upserted(c).id[1]
               payload == Upserted(c).gitHubRepository[1]
               link == repositories'[id].gitHubRepositoryID
           IN \/ /\ storeCalls'[c].promise = "rejected"
                 /\ <<repositories, gitHubRepositories, owners>>'
                      = <<repositories, gitHubRepositories, owners>>
              \/ /\ storeCalls'[c].promise = "resolved"
                 /\ link \in 1..Len(gitHubRepositories')
                 /\ gitHubRepositories'[link].name = payload.name
                 /\ gitHubRepositories'[link].htmlURL = payload.htmlURL
                 /\ gitHubRepositories'[link].private = payload.private
                 /\ gitHubRepositories'[link].fork = payload.fork
                 /\ gitHubRepositories'[link].ownerID \in 1..Len(owners')
    ]_vars

\* C13 witness: the upsert of an unlinked repository with an owner the
\* database did not hold has failed, and no owner row and no remote row
\* were left behind.
C13_Witness ==
  \E c \in DOMAIN storeCalls :
    /\ storeCalls[c].op = "updateGitHubRepository"
    /\ storeCalls[c].repo.id # Null /\ storeCalls[c].repo.gitHubRepository # Null
    /\ storeCalls[c].pc = "done" /\ storeCalls[c].promise = "rejected"
    /\ Len(repositories) = 1 /\ repositories[1].gitHubRepositoryID = 0
    /\ owners = <<>> /\ gitHubRepositories = <<>>

\* C14: in every state, after failures and crashes too, the remote
\* reference of a local row is null or the id of a remote row, and the
\* owner id of a remote row is the id of an owner row.
C14_NoDanglingReferences ==
  /\ \A i \in 1..Len(repositories) :
       LET link == repositories[i].gitHubRepositoryID
       IN link # 0 => /\ link \in 1..Len(gitHubRepositories)
                      /\ gitHubRepositories[link].id = link
  /\ \A g \in 1..Len(gitHubRepositories) :
       LET ownerID == gitHubRepositories[g].ownerID
       IN /\ ownerID \in 1..Len(owners)
          /\ owners[ownerID].id = ownerID

\* C14 witness: the process exited between the insert of an addRepository
\* with a remote and its upsert, next to a repository that is linked; the
\* new local row has no remote.
C14_Witness ==
  \E c \in DOMAIN storeCalls :
    /\ storeCalls[c].op = "addRepository"
    /\ storeCalls[c].pc = "crashed"
    /\ storeCalls[c].withID # Null
    /\ storeCalls[c].repo.gitHubRepository # Null
    /\ Len(repositories) = 2
    /\ repositories[1].gitHubRepositoryID = 1
    /\ repositories[2].gitHubRepositoryID = 0
    /\ storeCalls[c].withID[1].id = Some(2)

\* C15: the insert of addRepository appends one row and changes no other,
\* whatever id its argument carries; the id of the row is the key the
\* database generated, which no row had before, and it is the id of the
\* repository the call returns.
C15_AddIgnoresInputID ==
  [][ \A c \in DOMAIN storeCalls :
        /\ ( storeCalls[c].pc = "insert" /\ storeCalls'[c].pc \in {"upsert", "done"} )
           => /\ Len(repositories') = Len(repositories) + 1
              /\ SubSeq(repositories', 1, Len(repositories)) = repositories
              /\ LET row == repositories'[Len(repositories')]
                 IN /\ storeCalls'[c].withID = Some(Repository(
                           storeCalls[c].repo.path,
                           storeCalls[c].repo.gitHubRepository, Some(row.id)))
                    /\ row.path = storeCalls[c].repo.path
                    /\ \A i \in 1..Len(repositories) : repositories[i].id # row.id
        /\ storeCalls[c].withID # Null => storeCalls'[c].withID = storeCalls[c].withID
        /\ IsAddReturn(c) => storeCalls'[c].withID # Null
    ]_vars

\* C15 witness: addRepository was called with a repository that carries id 1
\* while row 1 existed, and it returned a repository with id 2.
C15_Witness ==
  \E c \in DOMAIN storeCalls :
    /\ storeCalls[c].op = "addRepository"
    /\ storeCalls[c].repo.id = Some(1)
    /\ storeCalls[c].promise = "resolved"
    /\ storeCalls[c].withID[1].id = Some(2)
    /\ Len(repositories) = 2 /\ repositories[1].id = 1 /\ repositories[2].id = 2

\* The addRepository calls that have returned.
SuccessfulAdds ==
  { c \in DOMAIN storeCalls :
      storeCalls[c].op = "addRepository" /\ storeCalls[c].promise = "resolved" }

\* The addRepository calls whose insert transaction has committed.
InsertedAdds ==
  { c \in DOMAIN storeCalls :
      storeCalls[c].op = "addRepository" /\ storeCalls[c].withID # Null }

\* C16 as stated: when every call has returned or thrown, getRepositories()
\* has as many entries as addRepository calls have succeeded.  An
\* addRepository whose insert committed and whose upsert failed refutes it.
C16_OneEntryPerSuccessfulAdd ==
  (\A c \in DOMAIN storeCalls : storeCalls[c].pc = "done")
  => Len(getRepositories) = Cardinality(SuccessfulAdds)

\* C16, amended: getRepositories() has as many entries as there are
\* addRepository calls whose insert committed, whether or not the call went
\* on to succeed, and every such insert added one row, also when a row
\* with the same path existed.
C16_OneEntryPerInsert ==
  /\ [](Len(getRepositories) = Cardinality(InsertedAdds))
  /\ [][ \A c \in DOMAIN storeCalls :
           ( storeCalls[c].withID = Null /\ storeCalls'[c].withID # Null )
           => /\ Len(repositories') = Len(repositories) + 1
              /\ repositories'[Len(repositories')].path = storeCalls[c].repo.path
     ]_vars

\* C16 witness: two addRepository calls with the same path succeeded and
\* the list has two entries with that path.
C16_Witness ==
  \E c1, c2 \in SuccessfulAdds :
    /\ c1 # c2
    /\ storeCalls[c1].repo.path = storeCalls[c2].repo.path
    /\ Len(getRepositories) = 2
    /\ getRepositories[1].path = getRepositories[2].path
    /\ getRepositories[1].id # getRepositories[2].id

\* C24: the upsert of a local repository that references a remote row
\* leaves the owner id of that row and the whole owners table as they were,
\* whatever owner the payload names.
C24_ExistingLinkageWins ==
  [][ \A c \in DOMAIN storeCalls :
        ( /\ IsUpsert(c)
          /\ repositories[Upserted(c).id[1]].gitHubRepositoryID # 0 )
        => LET link == repositories[Upserted(c).id[1]].gitHubRepositoryID
           IN /\ gitHubRepositories'[link].ownerID = gitHubRepositories[link].ownerID
              /\ repositories'[Upserted(c).id[1]].gitHubRepositoryID = link
              /\ owners' = owners
    ]_vars

\* C24 witness: a repository linked to a remote of my-user was upserted
\* with a payload of hubot; the row holds the payload's name and URL, its
\* owner is still the one owner row, my-user.
C24_Witness ==
  \E c1, c2 \in DOMAIN storeCalls :
    /\ c1 < c2
    /\ storeCalls[c1].op = "addRepository" /\ storeCalls[c1].promise = "resolved"
    /\ storeCalls[c1].repo.gitHubRepository # Null
    /\ storeCalls[c1].repo.gitHubRepository[1].owner = MyUser
    /\ storeCalls[c2].op = "updateGitHubRepository"
    /\ storeCalls[c2].promise = "resolved"
    /\ storeCalls[c2].repo.id = Some(1)
    /\ storeCalls[c2].repo.gitHubRepository[1].owner = Hubot
    /\ Len(owners) = 1 /\ owners[1].login = "my-user"
    /\ Len(gitHubRepositories) = 1
    /\ gitHubRepositories[1].ownerID = 1
    /\ gitHubRepositories[1].htmlURL = "https://github.com/hubot/a-fork"

\* C25: no two local rows reference the same remote row, and a committed
\* upsert for an unlinked local row adds a remote row and links the local
\* row to it, also when a row with the payload's name and owner exists.
C25_OneLocalPerRemote ==
  /\ [](\A i, j \in 1..Len(repositories) :
          ( /\ repositories[i].gitHubRepositoryID # 0
            /\ repositories[i].gitHubRepositoryID
                 = repositories[j].gitHubRepositoryID ) => i = j)
  /\ [][ \A c \in DOMAIN storeCalls :
           ( /\ IsUpsert(c)
             /\ storeCalls'[c].promise = "resolved"
             /\ repositories[Upserted(c).id[1]].gitHubRepositoryID = 0 )
           => /\ Len(gitHubRepositories') = Len(gitHubRepositories) + 1
              /\ repositories'[Upserted(c).id[1]].gitHubRepositoryID
                   = Len(gitHubRepositories')
              /\ SubSeq(gitHubRepositories', 1, Len(gitHubRepositories))
                   = gitHubRepositories
     ]_vars

\* C25 witness: two local repositories were added with the same remote
\* payload; each references a remote row of its own, and the two rows have
\* the same name and the same owner.
C25_Witness ==
  /\ Len(repositories) = 2 /\ Len(gitHubRepositories) = 2
  /\ repositories[1].gitHubRepositoryID = 1
  /\ repositories[2].gitHubRepositoryID = 2
  /\ gitHubRepositories[1].name = gitHubRepositories[2].name
  /\ gitHubRepositories[1].ownerID = gitHubRepositories[2].ownerID
  /\ gitHubRepositories[1].htmlURL = gitHubRepositories[2].htmlURL

(***************************************************************************)
(* Properties of the GitStore with its other methods, checked under        *)
(* SpecOps.                                                                *)
(***************************************************************************)
\* C20: no step of loadHistory (its divergence reset included),
\* loadNextHistoryBatch, loadLocalCommits, loadBranches or undoCommit
\* removes a key from the commits map: the keys after a step include the
\* keys before it, and so the keys of every later state those of every
\* earlier one.
C20_CommitsOnlyGrow ==
  [][ commits \subseteq commits' ]_vars

\* C20 witness: a second loadHistory() found a log that had diverged and
\* reset history to it; the commits of the first load are still in the map.
C20_Witness ==
  /\ Len(calls) = 2
  /\ \A c \in 1..2 : /\ calls[c].op = "loadHistory"
                      /\ calls[c].pc = "done" /\ calls[c].def
  /\ calls[1].val = <<3, 2>>
  /\ history = <<1>>
  /\ commits = {1, 2, 3}

\* C21: no step of a loadLocalCommits call changes history or the in-flight
\* set.  When its fetch succeeds, localCommitSHAs becomes the fetched SHAs in
\* the order fetched and the call's only notification is one did-update;
\* when its fetch fails, localCommitSHAs and commits stay as they were.
C21_LoadLocalCommitsFrame ==
  [][ /\ IsCall("loadLocalCommits")
         => UNCHANGED <<history, requestsInFight, commits, localCommitSHAs, events>>
      /\ \A c \in DOMAIN calls :
           ( /\ calls[c].op = "loadLocalCommits"
             /\ calls[c].pc = "git"
             /\ calls'[c].pc = "done" )
           => /\ UNCHANGED <<history, requestsInFight>>
              /\ calls'[c].promise = "resolved"
              /\ IF calls'[c].def
                   THEN /\ localCommitSHAs' = calls'[c].val
                        /\ Len(events') = Len(events) + 1
                        /\ events'[Len(events')].kind = "did-update"
                        /\ events'[Len(events')].call = c
                        /\ SubSeq(events', 1, Len(events)) = events
                   ELSE /\ UNCHANGED <<localCommitSHAs, commits>>
                        /\ \A i \in (Len(events) + 1)..Len(events') :
                             events'[i].kind = "did-error"
    ]_vars

\* C21 witness: local commits were listed and a second loadLocalCommits
\* failed; the list is still the one the first call fetched.
C21_Witness ==
  \E c1, c2 \in DOMAIN calls :
    /\ c1 < c2
    /\ calls[c1].op = "loadLocalCommits" /\ calls[c1].pc = "done"
    /\ calls[c1].def /\ calls[c1].val = <<3, 2>>
    /\ calls[c2].op = "loadLocalCommits" /\ calls[c2].pc = "done"
    /\ ~calls[c2].def
    /\ localCommitSHAs = <<3, 2>>
    /\ commits = {2, 3}
    /\ Kinds(EventsOf(c1)) = <<"did-update">>
    /\ Kinds(EventsOf(c2)) = <<"did-error">>

\* C26: between the steps of the GitStore every SHA of history and every
\* SHA of localCommitSHAs is a key of the commits map, whatever the order
\* of loadHistory, loadNextHistoryBatch and loadLocalCommits and whichever
\* of their fetches fail.
C26_ListsNameCachedCommits ==
  /\ \A i \in 1..Len(history) : history[i] \in commits
  /\ \A i \in 1..Len(localCommitSHAs) : localCommitSHAs[i] \in commits

\* C26 witness: a history load and a local-commits load have both
\* completed, the two lists are not empty and name different commits, and
\* the cache holds them all.
C26_Witness ==
  /\ \E c \in DOMAIN calls :
       calls[c].op = "loadHistory" /\ calls[c].pc = "done" /\ calls[c].def
  /\ \E c \in DOMAIN calls :
       calls[c].op = "loadLocalCommits" /\ calls[c].pc = "done" /\ calls[c].def
  /\ history # <<>> /\ localCommitSHAs # <<>>
  /\ Range(localCommitSHAs) # Range(history)
  /\ Range(history) \cup Range(localCommitSHAs) \subseteq commits

\* C27: when the Git command of an undoCommit(commit) settles (the deletion
\* of the branch ref for a commit without parents, the mixed reset to the
\* first parent otherwise), the call resolves and its last notification is
\* an update; if the command succeeded the contextual commit message is the
\* commit's summary and body and no error is notified; if it failed the
\* message is what it was and exactly one error is notified before the
\* update.
C27_UndoCommitMessage ==
  [][ \A c \in DOMAIN calls :
        ( /\ calls[c].op = "undoCommit"
          /\ calls[c].pc = "git"
          /\ calls'[c].pc = "done" )
        => LET sha == calls[c].from
               new == SubSeq(events', Len(events) + 1, Len(events'))
           IN /\ calls'[c].promise = "resolved"
              /\ SubSeq(events', 1, Len(events)) = events
              /\ \A i \in DOMAIN new : new[i].call = c
              /\ IF calls'[c].def
                   THEN /\ contextualCommitMessage'
                             = Some([ summary |-> <<"summary", sha>>,
                                      description |-> <<"body", sha>> ])
                        /\ Kinds(new) = <<"did-update">>
                   ELSE /\ contextualCommitMessage' = contextualCommitMessage
                        /\ Kinds(new) = <<"did-error", "did-update">>
    ]_vars

\* C27 witness: the reset undoing commit 3 succeeded and then the reset
\* undoing commit 2 failed; the message is still that of commit 3, and the
\* second call resolved after one error and one update.
C27_Witness ==
  /\ Len(calls) = 2
  /\ \A c \in 1..2 : /\ calls[c].op = "undoCommit"
                      /\ calls[c].pc = "done"
                      /\ calls[c].promise = "resolved"
  /\ calls[1].from = 3 /\ calls[1].def
  /\ calls[2].from = 2 /\ ~calls[2].def
  /\ contextualCommitMessage
       = Some([ summary |-> <<"summary", 3>>, description |-> <<"body", 3>> ])
  /\ Kinds(EventsOf(1)) = <<"did-update">>
  /\ Kinds(EventsOf(2)) = <<"did-error", "did-update">>

\* The step of call c notified an error.
NotifiedError(c) ==
  \E i \in (Len(events) + 1)..Len(events') :
    events'[i].call = c /\ events'[i].kind = "did-error"

\* C28: a loadBranches() whose fetch of the local branches fails goes on
\* with no local branches, and one whose fetch of the remote branches fails
\* goes on with no remote branches; when the second fetch has settled the
\* call resolves with allBranches being the local branches in order and
\* then the remote branches, in order, whose name is the upstream of no
\* local branch.  The tip of every branch of allBranches is in commits.
C28_AllBranches ==
  /\ [](\A i \in 1..Len(allBranches) : allBranches[i].tip \in commits)
  /\ [][ \A c \in DOMAIN calls :
           /\ ( /\ calls[c].op = "loadBranches"
                /\ calls[c].pc = "local"
                /\ calls'[c] # calls[c] )
              => /\ calls'[c].pc = "remote"
                 /\ calls'[c].promise = "pending"
                 /\ calls'[c].val \in (IF NotifiedError(c) THEN { <<>> }
                                       ELSE LocalBranchLists)
           /\ ( /\ calls[c].op = "loadBranches"
                /\ calls[c].pc = "remote"
                /\ calls'[c] # calls[c] )
              => /\ calls'[c].pc = "recent"
                 /\ calls'[c].promise = "resolved"
                 /\ \E remoteBranches \in (IF NotifiedError(c) THEN { <<>> }
                                           ELSE RemoteBranchLists) :
                      LET localBranches == calls[c].val
                          isUpstream(name) ==
                            \E i \in 1..Len(localBranches) :
                              localBranches[i].upstream = Some(name)
                      IN allBranches'
                           = localBranches
                               \o SelectSeq(remoteBranches,
                                    LAMBDA b : ~isUpstream(b.name))
     ]_vars

\* C28 witness: a loadBranches() whose two fetches succeeded listed topic,
\* master and origin/topic, leaving out origin/master, the upstream of
\* master; a second one whose local fetch failed then listed the two remote
\* branches alone.  All tips are cached.
C28_Witness ==
  /\ Len(calls) = 2
  /\ \A c \in 1..2 : /\ calls[c].op = "loadBranches"
                      /\ calls[c].pc \in {"recent", "done"}
                      /\ calls[c].promise = "resolved"
  /\ calls[1].val = <<Topic, Master, OriginTopic>>
  /\ allBranches = <<OriginMaster, OriginTopic>>
  /\ Kinds(EventsOf(2))[1] = "did-error"
  /\ {1, 2, 3} \subseteq commits

(***************************************************************************)
(* Properties of the AppWindow, checked under SpecWindow, and of the       *)
(* AddExistingRepository form, checked under SpecForm.                     *)
(***************************************************************************)
\* How many times 'did-load' was emitted from a listener of load() l.
DidLoadCount(l) == Len(SelectSeq(didLoad, LAMBDA e : e = l))

\* C29: 'did-load' is emitted for a load() once, when both its
\* 'did-finish-load' listener and its 'renderer-ready' listener have run,
\* whichever ran first, and not at all before that.
C29_DidLoadOncePerLoad ==
  \A l \in DOMAIN listeners :
    DidLoadCount(l) = IF /\ ~listeners[l].didFinishLoad
                         /\ ~listeners[l].rendererReady
                        THEN 1 ELSE 0

\* C30: a check whose token is no longer the current one when its result
\* arrives leaves the state as it is; and whenever every check has settled
\* the state holds the path entered last, whether it is a Git repository,
\* and the warning when it is not.
C30_LatestPathWins ==
  /\ [][ \A c \in DOMAIN checks :
           ( /\ checks[c].token # checkGitRepositoryToken
             /\ checks'[c] # checks[c] )
           => formState' = formState ]_vars
  /\ []( ( /\ checks # <<>>
           /\ \A c \in DOMAIN checks : checks[c].pc = "done" )
         => LET path == checks[Len(checks)].path
                isRepo == resolvedPath(path) \in GitRepositories
            IN /\ formState.path = path
               /\ formState.gitRepository = isRepo
               /\ formState.showNonGitRepositoryWarning = ~isRepo )

====
